---- MODULE Spec2Model ----
(***************************************************************************)
(* A model of the jlc2kicad-tauri conversion core (src-tauri/src/lib.rs    *)
(* and its sibling helpers.rs): identifier normalisation and discovery,    *)
(* the offline event-log replay, the footprint renderer with its bounding  *)
(* box, the offline bundle lookups, and the batch conversion orchestrator  *)
(* with the process-wide network settings.                                 *)
(*                                                                         *)
(* Strings are sequences of one-character strings, so that trimming, case  *)
(* folding, prefix tests and the regex scan are computed, not assumed.     *)
(* Option<String> is a sequence too: None is the one-element sequence      *)
(* <<"None">>, which no string of the model equals.                        *)
(***************************************************************************)
EXTENDS Integers, Sequences, FiniteSets, TLC

VARIABLES
    \* ---- identifier heuristics (normalize_component_token,
    \*      extract_preferred_local_id, collect_local_component_map)
    idPc,          \* which identifier operation ran last
    tokenIn,       \* the raw token handed to normalize_component_token
    tokenOut,      \* its result
    device,        \* the device record handed to extract_preferred_local_id
    preferredId,   \* its result
    scanned,       \* the raw tokens the file scan has met so far
    ids,           \* collect_local_component_map: the HashSet `ids`
    map,           \* collect_local_component_map: the keys of `map`
    \* ---- footprint renderer (create_footprint_from_offline and the parsers)
    rPc,           \* "idle", "rendering", "written", "failed" or "panicked"
    rModels,       \* whether `models` holds "STEP"
    rShape,        \* the shape lines parse_local_data_str returned
    rIdx,          \* how many of them the record loop has consumed
    footprint_info, \* the four running extrema of the render pass
    content,       \* kicad_mod_content: the primitives pushed so far
    file,          \* the primitives of the .kicad_mod file on disk, <<>> if none
    bbox,          \* a FootprintInfo fed through calculate_footprint_bounds
    fed,           \* the (x, y) updates fed to bbox, in order
    \* ---- event-log replay (parse_elibu_content, flush_elibu_doc)
    ePc,           \* "idle", "replaying" or "replayed"
    log,           \* the lines read so far, an EOF mark after each member
    acc,           \* the ElibuDocAccumulator
    symbol_data,   \* OfflineBundle.symbol_data: UUID -> payload lines
    footprint_data, \* OfflineBundle.footprint_data: UUID -> payload lines
    \* ---- conversions (create_component, convert_local_folder) and the
    \*      network settings they read
    settings,      \* the NetworkSettings in the store
    bPc,           \* where the running conversion stands
    mode,          \* "single", "online" or "offline"
    opts,          \* create_footprint, create_symbol, whether models holds STEP
    bundle,        \* the OfflineBundle loaded, NoBundle if none
    component_ids, \* the identifiers discovered
    todo,          \* those the loop has not reached yet
    current,       \* the identifier being converted
    client,        \* the JlcClient of the call in progress
    startSettings, \* the settings in the store when the conversion started
    requests,      \* the clients that have sent a request in this conversion
    success,       \* the success counter
    failed,        \* the failure entries, in order
    written,       \* the identifiers whose footprint file has been written
    modelFailed,   \* those whose 3D model could not be obtained
    selected_devices, \* the devices handed to create_symbols_from_offline
    symbol_file,   \* the symbols in the library file on disk
    \* ---- the settings commands and the HTTP operations of JlcClient
    nPc,           \* where the running HTTP operation stands
    setArg,        \* the argument of the last set_network_settings
    setResult,     \* its result: "ok", "err", "none" before the first call
    storeBefore,   \* the stored settings when that call began
    gotSettings,   \* what get_network_settings returned since, <<>> if not called
    hOp,           \* the HTTP operation in progress
    hBases,        \* the base URLs it walks
    hIdx,          \* the index of the base the loop tries next
    hTrace,        \* the requests sent so far: base, client, outcome
    last_err,      \* the loop's last_err: <<>> or <<error>>
    hResult,       \* the operation's result, <<>> while it runs
    hSettings,     \* the settings JlcClient::new read for the operation's client
    hClient,       \* the route of each client of that JlcClient
    \* ---- the 3D-model download chain
    mPc,           \* where the chain stands
    mPath,         \* "footprint" (create_footprint_internal) or "only" (3D only)
    model_candidates, \* the candidate list, each UUID with the stage it came from
    mIdx,          \* the candidate the loop tries next
    downloads,     \* the downloads requested so far, with their outcomes
    step_model_downloaded,
    step_model_error, \* <<>> or <<the error recorded last>>
    mReport,       \* what create_component returned, <<>> before
    \* ---- search_easyeda
    sPc,           \* the strategy the search runs next
    sQuery,        \* "code" (the query starts with C), "keyword" or "empty"
    sTried,        \* the strategies attempted so far, with what each yielded
    sAfter,        \* why the alternate search was reached: "empty" or "connect"
    sResult,       \* what search_easyeda returned, <<>> while it runs
    \* ---- load_offline_bundle_from_elibz
    zPc,           \* where the load of one archive stands
    archive,       \* the members of the archive, in index order
    zIdx,          \* the member the running loop reads next
    zFootprint,    \* bundle.footprint_data of the archive's bundle
    zSymbol,       \* bundle.symbol_data of the archive's bundle
    replayed       \* the indexes of the event-log members replayed

idVars == <<idPc, tokenIn, tokenOut, device, preferredId, scanned, ids, map>>

renderVars == <<rPc, rModels, rShape, rIdx, footprint_info, content, file, bbox, fed>>

elibuVars == <<ePc, log, acc, symbol_data, footprint_data>>

batchVars ==
    <<settings, bPc, mode, opts, bundle, component_ids, todo, current, client,
      startSettings, requests, success, failed, written, modelFailed, selected_devices,
      symbol_file>>

\* the conversion state without the settings store
batchRest ==
    <<bPc, mode, opts, bundle, component_ids, todo, current, client, startSettings,
      requests, success, failed, written, modelFailed, selected_devices, symbol_file>>

netVars ==
    <<nPc, setArg, setResult, storeBefore, gotSettings, hOp, hBases, hIdx, hTrace,
      last_err, hResult, hSettings, hClient>>

modelVars ==
    <<mPc, mPath, model_candidates, mIdx, downloads, step_model_downloaded,
      step_model_error, mReport>>

searchVars == <<sPc, sQuery, sTried, sAfter, sResult>>

archiveVars == <<zPc, archive, zIdx, zFootprint, zSymbol, replayed>>

vars ==
    <<idVars, renderVars, elibuVars, batchVars, netVars, modelVars, searchVars,
      archiveVars>>

\* what each group of operations leaves alone
notIdVars == <<archiveVars, searchVars, modelVars, renderVars, elibuVars, batchVars, netVars>>
notRenderVars == <<archiveVars, searchVars, modelVars, idVars, elibuVars, batchVars, netVars>>
notElibuVars == <<archiveVars, searchVars, modelVars, idVars, renderVars, batchVars, netVars>>
notBatchVars == <<archiveVars, searchVars, modelVars, idVars, renderVars, elibuVars, netVars>>
notNetVars == <<archiveVars, searchVars, idVars, renderVars, elibuVars, batchRest, modelVars>>
notModelVars == <<archiveVars, searchVars, idVars, renderVars, elibuVars, batchVars, netVars>>
notSearchVars == <<archiveVars, idVars, renderVars, elibuVars, batchVars, netVars, modelVars>>
notArchiveVars ==
    <<idVars, renderVars, elibuVars, batchVars, netVars, modelVars, searchVars>>

(***************************************************************************)
(* Strings                                                                 *)
(***************************************************************************)
None == <<"None">>

Rep(ch, n) == [i \in 1..n |-> ch]

Digits == {"0", "1", "2", "3", "4", "5", "6", "7", "8", "9"}
LowerHex == {"a", "b", "c", "d", "e", "f"}
UpperHex == {"A", "B", "C", "D", "E", "F"}
LowerOther == {"x", "o", "i", "l", "s", "u", "p", "r", "t", "n"}
UpperOther == {"X", "L", "S"}

\* char::is_ascii_digit
IsAsciiDigit(c) == c \in Digits
\* char::is_ascii_hexdigit
IsAsciiHexdigit(c) == c \in Digits \cup LowerHex \cup UpperHex
\* char::is_ascii_alphanumeric
IsAsciiAlphanumeric(c) == c \in Digits \cup LowerHex \cup UpperHex \cup LowerOther \cup UpperOther
\* a regex word character (\w): alphanumeric or underscore
IsWordChar(c) == IsAsciiAlphanumeric(c) \/ c = "_"

\* char::to_uppercase on the characters of the model
UpperChar(c) ==
    CASE c = "a" -> "A" [] c = "b" -> "B" [] c = "c" -> "C" [] c = "d" -> "D"
      [] c = "e" -> "E" [] c = "f" -> "F" [] c = "x" -> "X" [] c = "l" -> "L"
      [] c = "s" -> "S" [] c = "o" -> "O" [] c = "i" -> "I" [] c = "u" -> "U"
      [] c = "p" -> "P" [] c = "r" -> "R" [] c = "t" -> "T" [] c = "n" -> "N"
      [] OTHER -> c

\* str::to_uppercase
ToUppercase(s) == [i \in 1..Len(s) |-> UpperChar(s[i])]

\* str::starts_with(char)
StartsWith(s, c) == Len(s) >= 1 /\ s[1] = c

RECURSIVE TrimStartMatches(_, _)
TrimStartMatches(s, cs) ==
    IF Len(s) >= 1 /\ s[1] \in cs THEN TrimStartMatches(Tail(s), cs) ELSE s

RECURSIVE TrimEndMatches(_, _)
TrimEndMatches(s, cs) ==
    IF Len(s) >= 1 /\ s[Len(s)] \in cs
    THEN TrimEndMatches(SubSeq(s, 1, Len(s) - 1), cs)
    ELSE s

\* str::trim_matches(char)
TrimMatches(s, cs) == TrimEndMatches(TrimStartMatches(s, cs), cs)

\* str::trim
Trim(s) == TrimMatches(s, {" "})

\* the longest prefix of s whose characters satisfy take_while's test
RECURSIVE TakeWhileAlnum(_)
TakeWhileAlnum(s) ==
    IF Len(s) >= 1 /\ IsAsciiAlphanumeric(s[1])
    THEN <<s[1]>> \o TakeWhileAlnum(Tail(s))
    ELSE <<>>

\* value.split('|').next(): the part before the first '|'
RECURSIVE uuid_first_part(_)
uuid_first_part(s) ==
    IF Len(s) = 0 \/ s[1] = "|" THEN <<>> ELSE <<s[1]>> \o uuid_first_part(Tail(s))

(***************************************************************************)
(* Identifier classification and normalisation                            *)
(***************************************************************************)
\* lib.rs looks_like_hex_uuid
looks_like_hex_uuid(value) ==
    LET s == Trim(value) IN
    IF Len(s) = 32 THEN \A i \in 1..32 : IsAsciiHexdigit(s[i])
    ELSE IF Len(s) = 36
         THEN /\ s[9] = "-" /\ s[14] = "-" /\ s[19] = "-" /\ s[24] = "-"
              /\ \A i \in 1..36 : i \in {9, 14, 19, 24} \/ IsAsciiHexdigit(s[i])
         ELSE FALSE

\* lib.rs normalize_component_token: the copy the library compiles and calls
normalize_component_token(value) ==
    LET token == Trim(TrimMatches(TrimMatches(Trim(value), {"\""}), {"'"}))
        upper == ToUppercase(token)
    IN  IF Len(token) = 0 THEN None
        ELSE IF /\ StartsWith(upper, "C")
                /\ Len(upper) > 1
                /\ \A i \in 2..Len(upper) : IsAsciiDigit(upper[i])
             THEN upper
             ELSE IF looks_like_hex_uuid(token) THEN token ELSE None

\* helpers.rs normalize_component_token: the factored copy (not compiled in)
helpers_normalize_component_token(s) ==
    LET trimmed == Trim(s)
        upper == ToUppercase(trimmed)
        alphanum == TakeWhileAlnum(upper)
    IN  IF Len(trimmed) = 0 THEN None
        ELSE IF StartsWith(upper, "C") /\ Len(alphanum) # 0 /\ Len(alphanum) <= 20
             THEN alphanum
             ELSE None

(***************************************************************************)
(* Device records (serde_json::Value objects whose values are strings)     *)
(***************************************************************************)
\* A JSON object is a function from the keys it holds to string values; a
\* device is [fields |-> object, hasAttrs |-> BOOLEAN, attrs |-> object].

\* the characters of the key names the modelled records use
KeyChars(k) ==
    CASE k = "LCSC" -> <<"L", "C", "S", "C">>
      [] k = "attributes" -> <<"a", "t", "t", "r", "i", "b", "u", "t", "e", "s">>
      [] k = "code" -> <<"c", "o", "d", "e">>
      [] k = "id" -> <<"i", "d">>
      [] k = "lcsc" -> <<"l", "c", "s", "c">>
      [] k = "product_code" -> <<"p", "r", "o", "d", "u", "c", "t", "_", "c", "o", "d", "e">>
      [] k = "uuid" -> <<"u", "u", "i", "d">>
      [] OTHER -> <<"x">>

\* serde_json's Map is a BTreeMap: members are written in byte order of the key
DeviceKeyOrder == <<"code", "id", "lcsc", "product_code", "uuid">>
AttrKeyOrder == <<"LCSC", "uuid">>

\* lib.rs first_non_empty_str: the first key whose trimmed string is non-empty
RECURSIVE first_non_empty_str(_, _)
first_non_empty_str(value, keys) ==
    IF Len(keys) = 0 THEN None
    ELSE IF Head(keys) \in DOMAIN value /\ Len(Trim(value[Head(keys)])) # 0
         THEN Trim(value[Head(keys)])
         ELSE first_non_empty_str(value, Tail(keys))

\* Option::or_else
OrElse(a, b) == IF a # None THEN a ELSE b

\* serde_json::to_string of the members of one object, in key order
RECURSIVE SerializeMembers(_, _, _)
SerializeMembers(obj, order, first) ==
    IF Len(order) = 0 THEN <<>>
    ELSE IF Head(order) \in DOMAIN obj
         THEN (IF first THEN <<>> ELSE <<",">>)
              \o <<"\"">> \o KeyChars(Head(order)) \o <<"\"", ":", "\"">>
              \o obj[Head(order)] \o <<"\"">>
              \o SerializeMembers(obj, Tail(order), FALSE)
         ELSE SerializeMembers(obj, Tail(order), first)

\* serde_json::to_string(device): "attributes" sorts before every other key
SerializeDevice(d) ==
    <<"{">>
    \o (IF d.hasAttrs
        THEN <<"\"">> \o KeyChars("attributes") \o <<"\"", ":", "{">>
             \o SerializeMembers(d.attrs, AttrKeyOrder, TRUE) \o <<"}">>
        ELSE <<>>)
    \o SerializeMembers(d.fields, DeviceKeyOrder, ~d.hasAttrs)
    \o <<"}">>

\* the number of ASCII digits at the front of s
RECURSIVE DigitRun(_)
DigitRun(s) == IF Len(s) >= 1 /\ IsAsciiDigit(s[1]) THEN 1 + DigitRun(Tail(s)) ELSE 0

\* whether \bC\d{3,}\b matches text at position i (the digit run is greedy and
\* a shorter run never ends on a word boundary)
MatchesAt(text, i) ==
    /\ text[i] = "C"
    /\ (i = 1 \/ ~IsWordChar(text[i - 1]))
    /\ LET n == DigitRun(SubSeq(text, i + 1, Len(text)))
       IN  /\ n >= 3
           /\ (i + n = Len(text) \/ ~IsWordChar(text[i + n + 1]))

\* lib.rs component_id_regex().find(text): the leftmost match, or None
component_id_regex_find(text) ==
    LET starts == {i \in 1..Len(text) : MatchesAt(text, i)} IN
    IF starts = {} THEN None
    ELSE LET i == CHOOSE j \in starts : \A k \in starts : j <= k
         IN  SubSeq(text, i, i + DigitRun(SubSeq(text, i + 1, Len(text))))

\* the explicit vendor-code keys read at the device level (lib.rs 496)
ExplicitDeviceKeys ==
    <<"product_code", "productCode", "code", "lcsc", "partNumber", "part_number">>

\* the explicit vendor-code keys read in `attributes` (lib.rs 501-509)
ExplicitAttrKeys ==
    <<"product_code", "Product Code", "LCSC", "LCSC Part", "LCSC Part #", "Part Number", "Code">>

\* lib.rs extract_preferred_local_id
extract_preferred_local_id(d) ==
    LET attrs == IF d.hasAttrs THEN d.attrs ELSE d.fields
        direct == OrElse(
            first_non_empty_str(d.fields, ExplicitDeviceKeys),
            first_non_empty_str(attrs, ExplicitAttrKeys))
        v == IF direct = None THEN None ELSE normalize_component_token(direct)
        m == component_id_regex_find(SerializeDevice(d))
        byId == OrElse(first_non_empty_str(d.fields, <<"id", "uuid">>),
                       first_non_empty_str(attrs, <<"uuid">>))
    IN  IF v # None /\ StartsWith(ToUppercase(v), "C") THEN v
        ELSE IF m # None /\ normalize_component_token(m) # None
             THEN normalize_component_token(m)
             ELSE IF byId = None THEN None ELSE normalize_component_token(byId)

(***************************************************************************)
(* Shape language and the footprint renderer                               *)
(*                                                                         *)
(* A shape-language line is the sequence of its '~'-separated tokens; a     *)
(* token is the sequence of its ' '-separated words, so the empty token is  *)
(* <<>> and a point list is one token of several words.  Numbers read from  *)
(* the source are held in tenths of a mil; lengths in the output are held   *)
(* in units of 1/39370 mm, which makes mils / 3.937 exact.                  *)
(***************************************************************************)
\* units of the output per millimetre (lib.rs mil2mm: mils / 3.937)
MmUnit == 39370

\* the sentinel magnitude of FootprintInfo::default, in millimetres
SentinelMm == 10000

\* the words that str::parse::<f64> accepts among the words of the model
IsNumWord(w) ==
    w \in {"0", "1", "2", "3", "4", "5", "6", "7", "8", "9", "10", "11", "90", "100", "-100", "200", "-200",
           "300", "-300", "500", "40000", "-40000"}

\* the parsed value of a numeric word, in tenths
WordF64(w) ==
    CASE w = "0" -> 0 [] w = "1" -> 10 [] w = "2" -> 20 [] w = "3" -> 30
      [] w = "4" -> 40 [] w = "6" -> 60 [] w = "7" -> 70 [] w = "8" -> 80
      [] w = "9" -> 90
      [] w = "5" -> 50 [] w = "10" -> 100 [] w = "11" -> 110 [] w = "90" -> 900
      [] w = "100" -> 1000 [] w = "-100" -> -1000 [] w = "200" -> 2000
      [] w = "-200" -> -2000 [] w = "300" -> 3000 [] w = "500" -> 5000
      [] w = "-300" -> -3000 [] w = "40000" -> 400000 [] w = "-40000" -> -400000
      [] OTHER -> 0

\* token.parse::<f64>().is_ok(): a token of one numeric word
ParsesF64(tok) == Len(tok) = 1 /\ IsNumWord(tok[1])

\* token.parse().unwrap_or(default), in tenths
ParseOr(tok, default) == IF ParsesF64(tok) THEN WordF64(tok[1]) ELSE default

\* lib.rs mil2mm: tenths of a mil to output units
mil2mm(mils) == mils * 1000

Min2(a, b) == IF a <= b THEN a ELSE b
Max2(a, b) == IF a >= b THEN a ELSE b

\* FootprintInfo::default: the four extrema at their sentinels
FootprintInfoDefault ==
    [max_x |-> -(SentinelMm * MmUnit), max_y |-> -(SentinelMm * MmUnit),
     min_x |-> SentinelMm * MmUnit, min_y |-> SentinelMm * MmUnit]

\* helpers.rs calculate_footprint_bounds, and the same four lines in parse_pad
calculate_footprint_bounds(info, x, y) ==
    [max_x |-> Max2(info.max_x, x), max_y |-> Max2(info.max_y, y),
     min_x |-> Min2(info.min_x, x), min_y |-> Min2(info.min_y, y)]

\* line.split('~').filter(|s| !s.is_empty()).collect()
SplitParts(line) == SelectSeq(line, LAMBDA tok : tok # <<>>)

\* args.get(i) of a 0-based index, with a default for a missing argument
ArgOr(args, i, default) == IF i + 1 <= Len(args) THEN args[i + 1] ELSE default

\* lib.rs layer_map
layer_map(layer_id) ==
    CASE layer_id = <<"1">> -> "F.Cu" [] layer_id = <<"2">> -> "B.Cu"
      [] layer_id = <<"3">> -> "F.SilkS" [] layer_id = <<"4">> -> "B.SilkS"
      [] layer_id = <<"5">> -> "F.Paste" [] layer_id = <<"6">> -> "B.Paste"
      [] layer_id = <<"7">> -> "F.Mask" [] layer_id = <<"8">> -> "B.Mask"
      [] layer_id = <<"10">> -> "Edge.Cuts"
      [] layer_id \in {<<"11">>, <<"12">>, <<"99">>, <<"100">>, <<"101">>} -> "F.Fab"
      [] OTHER -> "F.SilkS"

\* a parser's result: Some(text) or None, the output it appends, the bounds it
\* leaves, and whether it panicked (an index past the end of a Vec)
\* a parser's None: no output, bounds untouched
Rejected(info) == [some |-> FALSE, panic |-> FALSE, out |-> <<>>, info |-> info]

\* parse_pad with the field count off by one: a record of nine fields is dropped
parse_pad_ten_fields(args, info) ==
    IF Len(args) < 10 THEN Rejected(info)
    ELSE [some |-> TRUE, panic |-> FALSE,
          out |-> <<[kind |-> "pad", num |-> args[8], x |-> mil2mm(ParseOr(args[2], 0)),
                     y |-> mil2mm(ParseOr(args[3], 0))]>>,
          info |-> calculate_footprint_bounds(info, mil2mm(ParseOr(args[2], 0)),
                                              mil2mm(ParseOr(args[3], 0)))]

\* lib.rs parse_pad
parse_pad(args, info) ==
    IF Len(args) < 9 THEN Rejected(info)
    ELSE
    LET shape == args[1]
        x == mil2mm(ParseOr(args[2], 0))
        y == mil2mm(ParseOr(args[3], 0))
        size_x == mil2mm(ParseOr(args[4], 10))
        size_y == mil2mm(ParseOr(args[5], 10))
        layer == args[6]
        pad_num == args[8]
        drill_diameter == mil2mm(ParseOr(args[9], 0)) * 2
        rotation == ParseOr(ArgOr(args, 10, <<>>), 0)
        pad_type == IF layer = <<"11">> THEN "thru_hole" ELSE "smd"
        ki_shape == CASE shape = <<"OVAL">> -> "oval" [] shape = <<"RECT">> -> "rect"
                      [] shape \in {<<"ELLIPSE">>, <<"CIRCLE">>} -> "circle"
                      [] OTHER -> "oval"
        layers == IF layer = <<"11">> THEN "*.Cu *.Mask"
                  ELSE IF layer = <<"1">> THEN "F.Cu F.Paste F.Mask"
                  ELSE "B.Cu B.Paste B.Mask"
        drill == IF pad_type = "thru_hole" /\ drill_diameter > 0 THEN drill_diameter ELSE 0
    IN  [some |-> TRUE, panic |-> FALSE,
         out |-> <<[kind |-> "pad", num |-> pad_num, type |-> pad_type, shape |-> ki_shape,
                    x |-> x, y |-> y, rot |-> rotation, size_x |-> size_x,
                    size_y |-> size_y, drill |-> drill, layers |-> layers]>>,
         info |-> calculate_footprint_bounds(info, x, y)]

\* the words of a point list that parse, converted (lib.rs 3499-3504)
RECURSIVE TrackPoints(_)
TrackPoints(words) ==
    IF Len(words) = 0 THEN <<>>
    ELSE (IF IsNumWord(Head(words)) THEN <<mil2mm(WordF64(Head(words)))>> ELSE <<>>)
         \o TrackPoints(Tail(words))

\* the body of parse_track's loop from index i (0-based, step 2)
RECURSIVE TrackSegments(_, _, _, _, _)
TrackSegments(points, i, layer, width, seg) ==
    IF i >= Len(points) - 2 THEN seg
    ELSE IF i + 4 > Len(points)
         THEN [some |-> FALSE, panic |-> TRUE, out |-> seg.out, info |-> seg.info]
    ELSE LET x1 == points[i + 1]
             y1 == points[i + 2]
             x2 == points[i + 3]
             y2 == points[i + 4]
             info1 == calculate_footprint_bounds(
                          calculate_footprint_bounds(seg.info, x1, y1), x2, y2)
         IN  TrackSegments(points, i + 2, layer, width,
                 [some |-> TRUE, panic |-> FALSE,
                  out |-> Append(seg.out, [kind |-> "fp_line", x1 |-> x1, y1 |-> y1,
                                           x2 |-> x2, y2 |-> y2, layer |-> layer,
                                           width |-> width]),
                  info |-> info1])

\* lib.rs parse_track
parse_track(args, info) ==
    IF Len(args) < 4 THEN Rejected(info)
    ELSE LET width == mil2mm(ParseOr(args[1], 2))
             layer == layer_map(args[2])
             points == TrackPoints(args[4])
         IN  IF Len(points) < 4 THEN Rejected(info)
             ELSE TrackSegments(points, 0, layer, width,
                                [some |-> TRUE, panic |-> FALSE, out |-> <<>>, info |-> info])

\* lib.rs parse_circle
parse_circle(args, info) ==
    IF Len(args) < 4 THEN Rejected(info)
    ELSE LET cx == mil2mm(ParseOr(args[1], 0))
             cy == mil2mm(ParseOr(args[2], 0))
             r == mil2mm(ParseOr(args[3], 0))
             width == mil2mm(ParseOr(args[4], 2))
             layer == layer_map(ArgOr(args, 4, <<"3">>))
         IN  IF Len(args) >= 5 /\ args[5] = <<"100">> THEN Rejected(info)
             ELSE [some |-> TRUE, panic |-> FALSE,
                   out |-> <<[kind |-> "fp_circle", cx |-> cx, cy |-> cy, ex |-> cx + r,
                              ey |-> cy, layer |-> layer, width |-> width]>>,
                   info |-> info]

\* lib.rs parse_arc: Some(String::new())
parse_arc(args, info) ==
    IF Len(args) < 4 THEN Rejected(info)
    ELSE [some |-> TRUE, panic |-> FALSE, out |-> <<>>, info |-> info]

\* lib.rs parse_rect
parse_rect(args, info) ==
    IF Len(args) < 8 THEN Rejected(info)
    ELSE LET x1 == mil2mm(ParseOr(args[1], 0))
             y1 == mil2mm(ParseOr(args[2], 0))
             dx == mil2mm(ParseOr(args[3], 0))
             dy == mil2mm(ParseOr(args[4], 0))
             x2 == x1 + dx
             y2 == y1 + dy
             layer == layer_map(ArgOr(args, 4, <<"3">>))
             width == mil2mm(ParseOr(ArgOr(args, 7, <<"0">>), 2))
             info1 == calculate_footprint_bounds(
                          calculate_footprint_bounds(info, x1, y1), x2, y2)
         IN  [some |-> TRUE, panic |-> FALSE,
              out |-> IF width = 0
                      THEN <<[kind |-> "fp_rect", x1 |-> x1, y1 |-> y1, x2 |-> x2,
                              y2 |-> y2, layer |-> layer]>>
                      ELSE <<[kind |-> "fp_line", x1 |-> x1, y1 |-> y1, x2 |-> x2,
                              y2 |-> y1, layer |-> layer, width |-> width]>>,
              info |-> info1]

\* lib.rs parse_hole
parse_hole(args, info) ==
    IF Len(args) < 3 THEN Rejected(info)
    ELSE LET x == mil2mm(ParseOr(args[1], 0))
             y == mil2mm(ParseOr(args[2], 0))
             r == mil2mm(ParseOr(args[3], 0)) * 2
         IN  [some |-> TRUE, panic |-> FALSE,
              out |-> <<[kind |-> "np_thru_hole", x |-> x, y |-> y, size |-> r, drill |-> r]>>,
              info |-> info]

\* lib.rs parse_solid_region: Some(String::new())
parse_solid_region(args, info) == [some |-> TRUE, panic |-> FALSE, out |-> <<>>, info |-> info]

\* lib.rs parse_text
parse_text(args, info) ==
    IF Len(args) < 12 THEN Rejected(info)
    ELSE [some |-> TRUE, panic |-> FALSE,
          out |-> <<[kind |-> "fp_text", text |-> args[12],
                     x |-> mil2mm(ParseOr(args[2], 0)), y |-> mil2mm(ParseOr(args[3], 0))]>>,
          info |-> info]

\* one iteration of the record loop of create_footprint_from_offline
\* (lib.rs 2773-2823): split, skip an empty line, dispatch on the tag
RenderRecord(line, info) ==
    LET parts == SplitParts(line) IN
    IF Len(parts) = 0 THEN Rejected(info)
    ELSE LET model == parts[1]
             args == Tail(parts)
         IN  CASE model = <<"PAD">> -> parse_pad(args, info)
               [] model = <<"TRACK">> -> parse_track(args, info)
               [] model = <<"CIRCLE">> -> parse_circle(args, info)
               [] model = <<"ARC">> -> parse_arc(args, info)
               [] model = <<"RECT">> -> parse_rect(args, info)
               [] model = <<"HOLE">> -> parse_hole(args, info)
               [] model = <<"SOLIDREGION">> -> parse_solid_region(args, info)
               [] model = <<"TEXT">> -> parse_text(args, info)
               [] OTHER -> Rejected(info)

\* the reference, value and hidden reference-token texts (lib.rs 2853-2866)
PlaceTexts(info) ==
    LET center_x == (info.min_x + info.max_x) \div 2
        center_y == (info.min_y + info.max_y) \div 2
    IN  [reference |-> [x |-> center_x, y |-> info.min_y - 2 * MmUnit],
         value |-> [x |-> center_x, y |-> info.max_y + 2 * MmUnit],
         user |-> [x |-> center_x, y |-> center_y]]

\* lib.rs parse_local_data_str.  A payload is [json |-> BOOLEAN, lines |-> ...]:
\* a JSON document whose "shape" array holds the lines, or shape-language text.
\* JSON with a non-empty shape gives the array as it is; text gives the lines
\* that are non-empty and contain a '~' (two tokens or more); else None.
parse_local_data_str(ds) ==
    LET lines == SelectSeq(ds.lines, LAMBDA l : Len(l) >= 2) IN
    IF ds.json /\ Len(ds.lines) # 0 THEN ds.lines
    ELSE IF ds.json \/ Len(lines) = 0 THEN None
    ELSE lines

(***************************************************************************)
(* The renderer at rest: the state every other specification leaves it in  *)
(***************************************************************************)
RenderIdle ==
    /\ rPc = "idle"
    /\ rModels = FALSE
    /\ rShape = <<>>
    /\ rIdx = 0
    /\ footprint_info = FootprintInfoDefault
    /\ content = <<>>
    /\ file = <<>>
    /\ bbox = FootprintInfoDefault
    /\ fed = <<>>

(***************************************************************************)
(* Inputs of the identifier operations                                     *)
(***************************************************************************)
\* 32 hex digits, first digit '5'
UuidPlain == <<"5", "5", "0", "e">> \o Rep("a", 28)
\* 32 hex digits, first digit 'c'
UuidLowerC == <<"c", "5", "0", "e">> \o Rep("a", 28)
\* 36 characters with dashes, first group "C1234567"
UuidDashedC ==
    <<"C", "1", "2", "3", "4", "5", "6", "7", "-">> \o Rep("e", 4) \o <<"-">>
    \o Rep("4", 4) \o <<"-">> \o Rep("a", 4) \o <<"-">> \o Rep("0", 12)

\* the lengths of the run of characters after a token's first character
BodyLens == {0, 1, 3, 5, 19, 20, 21, 31}

TokenPads == {<<>>, <<" ", " ">>, <<"\"">>, <<" ", "'">>}

\* raw tokens: padding, a first character, a run of one character, padding
TokenSet ==
    {pre \o <<h>> \o Rep(b, n) \o post :
        pre \in TokenPads, h \in {"C", "c", "x"}, b \in {"1", "a", "-"},
        n \in BodyLens, post \in TokenPads}

Absent == <<"Absent">>

ExplicitVals == {<<"X", "1">>, <<"C", "1", "0", "0", "1">>, <<"c", "1", "0", "0", "1">>,
                 <<" ">>}

\* the object holding the keys of `choice` that are not Absent
MkObject(choice) == [k \in {x \in DOMAIN choice : choice[x] # Absent} |-> choice[k]]

DeviceFieldChoices ==
    {c \in [{"product_code", "code", "lcsc", "id"} -> ExplicitVals \cup {Absent, UuidPlain, UuidDashedC}] :
        /\ c["id"] \in {UuidPlain, UuidDashedC}
        /\ \A k \in {"product_code", "code", "lcsc"} : c[k] \in ExplicitVals \cup {Absent}}

AttrChoices ==
    [{"LCSC", "uuid"} -> {Absent, <<"C", "2", "0", "0", "2">>}]

DeviceSet ==
    {[fields |-> MkObject(c), hasAttrs |-> h, attrs |-> MkObject(a)] :
        c \in DeviceFieldChoices, h \in BOOLEAN, a \in {x \in AttrChoices : x["uuid"] = Absent}}

\* what a scanned file can hold: vendor codes, UUIDs and noise
ScanTokens == {<<"C", "1", "0", "0", "1">>, <<"c", "2", "0", "0", "2">>,
               UuidPlain, UuidLowerC, UuidDashedC, <<"X", "1">>}

NoDevice == [fields |-> [k \in {"id"} |-> <<>>], hasAttrs |-> FALSE, attrs |-> [k \in {"uuid"} |-> <<>>]]

(***************************************************************************)
(* Identifier operations as actions                                        *)
(***************************************************************************)
IdInit ==
    /\ idPc = "idle"
    /\ tokenIn = <<>>
    /\ tokenOut = None
    /\ device = NoDevice
    /\ preferredId = None
    /\ scanned = {}
    /\ ids = {}
    /\ map = {}

\* lib.rs normalize_component_token applied to one raw token
NormalizeToken(t) ==
    /\ idPc = "idle"
    /\ idPc' = "normalized"
    /\ tokenIn' = t
    /\ tokenOut' = normalize_component_token(t)
    /\ UNCHANGED <<device, preferredId, scanned, ids, map>>
    /\ UNCHANGED notIdVars

\* helpers.rs normalize_component_token applied to one raw token
NormalizeTokenHelpers(t) ==
    /\ idPc = "idle"
    /\ idPc' = "normalizedHelpers"
    /\ tokenIn' = t
    /\ tokenOut' = helpers_normalize_component_token(t)
    /\ UNCHANGED <<device, preferredId, scanned, ids, map>>
    /\ UNCHANGED notIdVars

\* lib.rs extract_preferred_local_id applied to one device record
ExtractPreferred(d) ==
    /\ idPc = "idle"
    /\ idPc' = "preferred"
    /\ device' = d
    /\ preferredId' = extract_preferred_local_id(d)
    /\ UNCHANGED <<tokenIn, tokenOut, scanned, ids, map>>
    /\ UNCHANGED notIdVars

\* collect_local_component_map: the file list is gathered, the scan begins
StartCollect ==
    /\ idPc = "idle"
    /\ idPc' = "scanning"
    /\ UNCHANGED <<tokenIn, tokenOut, device, preferredId, scanned, ids, map>>
    /\ UNCHANGED notIdVars

\* collect_local_component_map, loop body: one token of one file is normalised
\* (extract_component_ids_from_json_value) and, when accepted, inserted
ScanToken(t) ==
    /\ idPc = "scanning"
    /\ t \notin scanned
    /\ scanned' = scanned \cup {t}
    /\ LET id == normalize_component_token(t) IN
       IF id # None
       THEN ids' = ids \cup {id} /\ map' = map \cup {id}
       ELSE UNCHANGED <<ids, map>>
    /\ UNCHANGED <<idPc, tokenIn, tokenOut, device, preferredId>>
    /\ UNCHANGED notIdVars

\* the retain of collect_local_component_map (lib.rs 2143-2147)
RetainPreferred(allIds, m) ==
    LET has_c == \E id \in allIds : StartsWith(ToUppercase(id), "C") IN
    IF has_c THEN {k \in m : StartsWith(ToUppercase(k), "C")} ELSE m

\* collect_local_component_map, after the loop: retain, then Err on an empty map
FinishCollect ==
    /\ idPc = "scanning"
    /\ map' = RetainPreferred(ids, map)
    /\ idPc' = IF map' = {} THEN "collectErr" ELSE "collected"
    /\ UNCHANGED <<tokenIn, tokenOut, device, preferredId, scanned, ids>>
    /\ UNCHANGED notIdVars

IdNext ==
    \/ \E t \in TokenSet : NormalizeToken(t)
    \/ \E t \in TokenSet : NormalizeTokenHelpers(t)
    \/ \E d \in DeviceSet : ExtractPreferred(d)
    \/ StartCollect
    \/ \E t \in ScanTokens : ScanToken(t)
    \/ FinishCollect

(***************************************************************************)
(* Claims about the identifier operations                                  *)
(***************************************************************************)
\* a vendor code: 'C' followed by one or more digits
IsVendorCode(id) ==
    /\ StartsWith(id, "C")
    /\ Len(id) > 1
    /\ \A i \in 2..Len(id) : IsAsciiDigit(id[i])

Range(f) == {f[i] : i \in DOMAIN f}

\* the normalized values of the explicit vendor-code fields of a record that
\* start with 'C'
ExplicitCodes(d) ==
    LET attrs == IF d.hasAttrs THEN d.attrs ELSE d.fields
        raw == {d.fields[k] : k \in Range(ExplicitDeviceKeys) \cap DOMAIN d.fields}
               \cup {attrs[k] : k \in Range(ExplicitAttrKeys) \cap DOMAIN attrs}
    IN  {normalize_component_token(v) : v \in raw} \cap
        {x \in {normalize_component_token(v) : v \in raw} : x # None /\ StartsWith(x, "C")}

\* C5: collect_local_component_map keeps UUID-shaped identifiers if and only if
\* no vendor code was discovered: with a vendor code found no UUID-shaped
\* identifier remains, with none found every discovered UUID remains.
C5_UuidKeptIffNoVendorCode ==
    idPc = "collected" =>
        LET vendorFound == \E id \in ids : IsVendorCode(id) IN
        /\ vendorFound => \A k \in map : ~looks_like_hex_uuid(k)
        /\ ~vendorFound => \A id \in ids : looks_like_hex_uuid(id) => id \in map

\* C6: extract_preferred_local_id returns the normalized vendor code whenever
\* an explicit vendor-code field normalizes to a value starting with 'C', and
\* returns the id/uuid field only when no explicit field holds a vendor code.
C6_ExplicitVendorCodeWins ==
    idPc = "preferred" =>
        /\ ExplicitCodes(device) # {} => preferredId \in ExplicitCodes(device)
        /\ (preferredId # None /\ looks_like_hex_uuid(preferredId)
                /\ preferredId \notin ExplicitCodes(device))
            => ExplicitCodes(device) = {}

\* the token with padding and quotes removed, as normalization sees it
StrippedToken(t) == Trim(TrimMatches(TrimMatches(Trim(t), {"\""}), {"'"}))

\* C7: normalize_component_token returns every accepted vendor code in
\* uppercase without quotes or whitespace, and rejects every vendor-code token
\* with more than 20 characters after the 'C' prefix.
C7_NormalizeUppercasesAndCaps ==
    idPc = "normalized" =>
        /\ (tokenOut # None /\ ~looks_like_hex_uuid(tokenOut)) =>
               /\ tokenOut = ToUppercase(StrippedToken(tokenIn))
               /\ \A i \in 1..Len(tokenOut) : tokenOut[i] \notin {" ", "\"", "'"}
        /\ (/\ StartsWith(ToUppercase(StrippedToken(tokenIn)), "C")
            /\ ~looks_like_hex_uuid(StrippedToken(tokenIn))
            /\ Len(StrippedToken(tokenIn)) - 1 > 20) => tokenOut = None

(***************************************************************************)
(* Inputs of the renderer                                                  *)
(***************************************************************************)
\* the longest payload, in lines
MaxLines == 3

\* the longest run of updates fed to the stand-alone accumulator
MaxFeeds == 2

\* PAD~shape~x~y~w~h~layer~~number~drill~0~rotation (the net field is empty)
PadLine(shape, x, y, layer, num, drill, rot) ==
    <<<<"PAD">>, <<shape>>, <<x>>, <<y>>, <<"10">>, <<"5">>, <<layer>>, <<>>, <<num>>,
      <<drill>>, <<"0">>, <<rot>>>>

ShapeLines ==
    {PadLine("OVAL", "0", "0", "1", "1", "0", "0"),
     PadLine("RECT", "100", "-300", "11", "2", "5", "90"),
     PadLine("ELLIPSE", "40000", "-40000", "2", "3", "0", "0"),
     \* a PAD cut short: seven non-empty fields after the tag
     <<<<"PAD">>, <<"OVAL">>, <<"200">>, <<"200">>, <<"10">>, <<"10">>, <<"1">>, <<>>, <<"1">>>>,
     \* a PAD of exactly nine non-empty fields after the tag
     <<<<"PAD">>, <<"OVAL">>, <<"-200">>, <<"500">>, <<"10">>, <<"10">>, <<"1">>, <<>>, <<"4">>,
       <<"0">>, <<"0">>>>,
     <<<<"HOLE">>, <<"100">>, <<"200">>, <<"5">>>>,
     \* a TRACK whose point list holds an odd number of coordinates
     <<<<"TRACK">>, <<"2">>, <<"3">>, <<"0">>, <<"0", "0", "100", "200", "300">>>>,
     <<<<"TRACK">>, <<"2">>, <<"3">>, <<"0">>, <<"0", "0", "100", "200", "-100", "200">>>>,
     <<<<"CIRCLE">>, <<"-100">>, <<"-300">>, <<"10">>, <<"1">>, <<"3">>>>,
     \* a line of separators only
     <<<<>>, <<>>>>}

RECURSIVE SeqsUpTo(_, _)
SeqsUpTo(S, n) ==
    IF n = 0 THEN {<<>>}
    ELSE LET shorter == SeqsUpTo(S, n - 1) IN
         shorter \cup {Append(q, x) : q \in {r \in shorter : Len(r) = n - 1}, x \in S}

Payloads == {[json |-> j, lines |-> l] : j \in BOOLEAN, l \in SeqsUpTo(ShapeLines, MaxLines)}

\* coordinates fed straight to the accumulator, in output units
FeedCoords == {-20000 * MmUnit, -3 * MmUnit, 4 * MmUnit, 20000 * MmUnit}

(***************************************************************************)
(* The renderer as actions                                                 *)
(***************************************************************************)
\* helpers.rs calculate_footprint_bounds called once on a FootprintInfo that
\* started at FootprintInfo::default
CalculateFootprintBounds(x, y) ==
    /\ rPc = "idle"
    /\ Len(fed) < MaxFeeds
    /\ bbox' = calculate_footprint_bounds(bbox, x, y)
    /\ fed' = Append(fed, <<x, y>>)
    /\ UNCHANGED <<rPc, rModels, rShape, rIdx, footprint_info, content, file>>
    /\ UNCHANGED notRenderVars

\* create_footprint_from_offline, entry (lib.rs 2748-2771): the payload is
\* parsed (ParseError when it yields no line) and the render state is built
StartRender ==
    /\ rPc = "idle"
    /\ fed = <<>>
    /\ \E ds \in Payloads, step \in BOOLEAN :
        /\ rModels' = step
        /\ LET parsed == parse_local_data_str(ds) IN
           IF parsed = None
           THEN rPc' = "failed" /\ rShape' = <<>>
           ELSE rPc' = "rendering" /\ rShape' = parsed
    /\ rIdx' = 0
    /\ footprint_info' = FootprintInfoDefault
    /\ content' = <<>>
    /\ UNCHANGED <<file, bbox, fed>>
    /\ UNCHANGED notRenderVars

\* create_footprint_from_offline, one iteration of the record loop
RenderLine ==
    /\ rPc = "rendering"
    /\ rIdx < Len(rShape)
    /\ LET r == RenderRecord(rShape[rIdx + 1], footprint_info) IN
       IF r.panic
       THEN rPc' = "panicked" /\ UNCHANGED <<rIdx, footprint_info, content>>
       ELSE /\ rPc' = "rendering"
            /\ rIdx' = rIdx + 1
            /\ footprint_info' = r.info
            /\ content' = content \o r.out
    /\ UNCHANGED <<rModels, rShape, file, bbox, fed>>
    /\ UNCHANGED notRenderVars

\* create_footprint_from_offline after the loop (lib.rs 2825-2875): a local
\* model is copied when STEP is requested and the index holds one, the three
\* texts are placed, the file is written; a failed copy or write returns Err
FinishRender(localModel, copyOk, writeOk) ==
    /\ rPc = "rendering"
    /\ rIdx = Len(rShape)
    /\ LET copying == rModels /\ localModel
           t == PlaceTexts(footprint_info)
           full == content
                   \o (IF copying THEN <<[kind |-> "model"]>> ELSE <<>>)
                   \o <<[kind |-> "reference", x |-> t.reference.x, y |-> t.reference.y],
                        [kind |-> "value", x |-> t.value.x, y |-> t.value.y],
                        [kind |-> "user", x |-> t.user.x, y |-> t.user.y]>>
       IN  IF (copying /\ ~copyOk) \/ ~writeOk
           THEN rPc' = "failed" /\ UNCHANGED <<content, file>>
           ELSE rPc' = "written" /\ content' = full /\ file' = full
    /\ UNCHANGED <<rModels, rShape, rIdx, footprint_info, bbox, fed>>
    /\ UNCHANGED notRenderVars

RenderNext ==
    \/ \E x \in FeedCoords, y \in FeedCoords : CalculateFootprintBounds(x, y)
    \/ StartRender
    \/ RenderLine
    \/ \E localModel \in BOOLEAN, copyOk \in BOOLEAN, writeOk \in BOOLEAN :
           FinishRender(localModel, copyOk, writeOk)

(***************************************************************************)
(* Claims about the renderer                                               *)
(***************************************************************************)
SetMin(S) == CHOOSE m \in S : \A v \in S : m <= v
SetMax(S) == CHOOSE m \in S : \A v \in S : m >= v

\* C8: after any sequence of updates the accumulator holds the arithmetic
\* minimum and maximum of all x and all y fed to it, for every input value;
\* fed nothing, it keeps its sentinels (min = 10000, max = -10000).
C8_BoundsAreArithmeticExtrema ==
    IF fed = <<>>
    THEN /\ bbox.min_x = SentinelMm * MmUnit /\ bbox.min_y = SentinelMm * MmUnit
         /\ bbox.max_x = -(SentinelMm * MmUnit) /\ bbox.max_y = -(SentinelMm * MmUnit)
    ELSE /\ bbox.min_x = SetMin({fed[i][1] : i \in 1..Len(fed)})
         /\ bbox.max_x = SetMax({fed[i][1] : i \in 1..Len(fed)})
         /\ bbox.min_y = SetMin({fed[i][2] : i \in 1..Len(fed)})
         /\ bbox.max_y = SetMax({fed[i][2] : i \in 1..Len(fed)})

\* a well-formed pad record: the PAD tag and at least nine non-empty fields
WellFormedPad(line) ==
    /\ Len(SplitParts(line)) >= 10
    /\ SplitParts(line)[1] = <<"PAD">>

CountWhere(q, Test(_)) == Len(SelectSeq(q, Test))

KindOf(q, k) == SelectSeq(q, LAMBDA p : p.kind = k)

IsTrack(line) ==
    /\ Len(SplitParts(line)) >= 5
    /\ SplitParts(line)[1] = <<"TRACK">>

TrackPointCount(line) == Len(TrackPoints(SplitParts(line)[5])) \div 2

\* the bounds hold the point (x, y)
InBounds(info, x, y) ==
    /\ info.min_x <= x /\ x <= info.max_x
    /\ info.min_y <= y /\ y <= info.max_y

\* the last n - 1 primitives of the content are the segments between the
\* consecutive points of the record, every vertex inside the bounds
SegmentsOf(line, out, info) ==
    LET pts == TrackPoints(SplitParts(line)[5])
        n == TrackPointCount(line)
        base == Len(out) - (n - 1)
    IN  /\ base >= 0
        /\ \A k \in 1..(n - 1) :
              /\ out[base + k].kind = "fp_line"
              /\ out[base + k].x1 = pts[2 * k - 1] /\ out[base + k].y1 = pts[2 * k]
              /\ out[base + k].x2 = pts[2 * k + 1] /\ out[base + k].y2 = pts[2 * k + 2]
        /\ \A k \in 1..n : InBounds(info, pts[2 * k - 1], pts[2 * k])

\* C22: a TRACK record holding n >= 2 points is rendered as n - 1 segments,
\* one per consecutive point pair, with every vertex in the bounding box,
\* also when its list holds an odd number of coordinates: the renderer never
\* stops at such a record.
C22_TrackSegmentsPerPointPair ==
    /\ (rPc = "panicked" /\ IsTrack(rShape[rIdx + 1])) =>
           TrackPointCount(rShape[rIdx + 1]) < 2
    /\ (rPc = "rendering" /\ rIdx > 0 /\ IsTrack(rShape[rIdx])
            /\ TrackPointCount(rShape[rIdx]) >= 2) =>
           SegmentsOf(rShape[rIdx], content, footprint_info)

\* the positions a rendered primitive occupies
PositionsOf(p) ==
    CASE p.kind \in {"pad", "np_thru_hole", "fp_text"} -> {<<p.x, p.y>>}
      [] p.kind \in {"fp_line", "fp_rect"} -> {<<p.x1, p.y1>>, <<p.x2, p.y2>>}
      [] p.kind = "fp_circle" -> {<<p.cx, p.cy>>}
      [] OTHER -> {}

\* the primitives the record loop has rendered
RenderedGeometry == SelectSeq(content, LAMBDA p : p.kind \notin {"reference", "value", "user", "model"})

\* C23: after any sequence of records the bounding box contains the position
\* of every rendered primitive (pad, track vertex, rect corner, circle, hole,
\* text), so the reference text lies above and the value text below all of
\* them in the written file.
C23_BoundsContainRenderedGeometry ==
    rPc \in {"rendering", "written"} =>
        \A i \in 1..Len(RenderedGeometry) : \A pos \in PositionsOf(RenderedGeometry[i]) :
            /\ InBounds(footprint_info, pos[1], pos[2])
            /\ rPc = "written" =>
                  /\ KindOf(file, "reference")[1].y < pos[2]
                  /\ KindOf(file, "value")[1].y > pos[2]

\* what the records of a payload render to, each taken on its own
RECURSIVE OutputOfEach(_)
OutputOfEach(lines) ==
    IF Len(lines) = 0 THEN <<>>
    ELSE RenderRecord(Head(lines), FootprintInfoDefault).out \o OutputOfEach(Tail(lines))

\* C27: rendering a footprint from any sequence of shape-language lines
\* never aborts: a record with too few or malformed fields is skipped and
\* every other record of the sequence is rendered.
C27_RenderNeverAborts ==
    /\ rPc # "panicked"
    /\ rPc = "written" => RenderedGeometry = OutputOfEach(rShape)

(***************************************************************************)
(* Event-log replay                                                        *)
(*                                                                         *)
(* A line of an event log is a record: whether it holds the "||" separator,*)
(* whether its header parses as JSON, the header's type and id, the state   *)
(* of its payload ("none" for an empty right side, "bad" for text that is   *)
(* not JSON, "ok"), and the payload's members.  Every line carries its own  *)
(* position in the log as its number n (x, centerX, dotX1, the first path   *)
(* coordinate, the ATTR value), so a rendered line shows which event made   *)
(* it.  Rendered lines are shape-language lines as above.                   *)
(***************************************************************************)
\* the most lines replayed, over all members
MaxEvents == 4

\* the most event-log members replayed into one bundle
MaxMembers == 2

\* f64 Display of the small whole numbers the log carries
FormatF64(n) == <<"0", "1", "2", "3", "4", "5", "6", "7", "8", "9">>[n + 1]

\* str::eq_ignore_ascii_case against an upper-case literal
EqIgnoreAsciiCase(s, lit) ==
    (CASE s = "symbol" -> "SYMBOL" [] s = "Footprint" -> "FOOTPRINT" [] OTHER -> s) = lit

\* ElibuDocAccumulator::default()
ElibuDocAccumulatorDefault == [doc_type |-> "", uuid |-> "", lines |-> <<>>, pins |-> <<>>]

\* lib.rs elibu_pin_type_to_code
elibu_pin_type_to_code(pin_type) ==
    CASE pin_type \in {"input", "Input"} -> "1"
      [] pin_type \in {"output", "Output"} -> "2"
      [] pin_type \in {"bidirectional"} -> "3"
      [] pin_type \in {"power", "power_in"} -> "4"
      [] OTHER -> "0"

\* acc.pins is a BTreeMap: held as the sequence of its entries in key order
PinIdOrder == <<"p1", "p2">>

PinIndex(pins, id) == {i \in 1..Len(pins) : pins[i].id = id}

RECURSIVE InsertSorted(_, _, _)
InsertSorted(pins, entry, order) ==
    IF Len(order) = 0 THEN pins
    ELSE IF Len(pins) # 0 /\ Head(pins).id = Head(order)
         THEN IF entry.id = Head(order) THEN <<entry>> \o Tail(pins)
              ELSE <<Head(pins)>> \o InsertSorted(Tail(pins), entry, Tail(order))
    ELSE IF entry.id = Head(order) THEN <<entry>> \o pins
         ELSE InsertSorted(pins, entry, Tail(order))

\* the line flush_elibu_doc renders for one pin (lib.rs 2266-2279)
PinLine(pin) ==
    <<<<"P">>, <<"1">>, <<elibu_pin_type_to_code(pin.pin_type)>>,
      <<IF pin.pin_num = "" THEN "0" ELSE pin.pin_num>>,
      <<FormatF64(pin.x)>>, <<FormatF64(pin.y)>>, <<FormatF64(pin.rotation)>>,
      <<"0">>, <<"0">>, <<"0">>, <<"0">>, <<"0">>, <<"0">>, <<"0">>,
      IF pin.pin_name = "" THEN <<>> ELSE <<pin.pin_name>>>>

\* entry(uuid).or_insert_with(value): the first payload under a key stays
OrInsert(m, uuid, value) ==
    IF uuid \in DOMAIN m THEN m
    ELSE [k \in DOMAIN m \cup {uuid} |-> IF k = uuid THEN value ELSE m[k]]

\* a flush that returns at once: nothing committed, nothing cleared
flush_elibu_doc_early_return(a, sd, fd) ==
    [acc |-> a, symbol_data |-> sd, footprint_data |-> fd]

\* lib.rs flush_elibu_doc: the accumulator and the two maps it leaves
flush_elibu_doc(a, sd, fd) ==
    IF a.uuid = ""
    THEN [acc |-> [doc_type |-> "", uuid |-> a.uuid, lines |-> <<>>, pins |-> <<>>],
          symbol_data |-> sd, footprint_data |-> fd]
    ELSE LET pinLines == [i \in 1..Len(a.pins) |-> PinLine(a.pins[i])]
             symLines == a.lines \o pinLines
         IN  [acc |-> ElibuDocAccumulatorDefault,
              symbol_data |->
                  IF EqIgnoreAsciiCase(a.doc_type, "SYMBOL") /\ symLines # <<>>
                  THEN OrInsert(sd, a.uuid, symLines) ELSE sd,
              footprint_data |->
                  IF /\ ~EqIgnoreAsciiCase(a.doc_type, "SYMBOL")
                     /\ EqIgnoreAsciiCase(a.doc_type, "FOOTPRINT")
                     /\ a.lines # <<>>
                  THEN OrInsert(fd, a.uuid, a.lines) ELSE fd]

\* payload.get(key) read as a string, "" when the payload or the key is missing
PayloadStr(ev, value) == IF ev.payload = "ok" THEN value ELSE ""

\* json_num(payload.get(key)).unwrap_or(0.0) for the line's number
PayloadNum(ev) == IF ev.payload = "ok" THEN ev.n ELSE 0

\* the path of a POLY or FILL event as extract_polyline_numbers returns it
PathNumbers(ev) ==
    IF ev.payload # "ok" THEN <<>>
    ELSE SubSeq(<<ev.n, 0, ev.n, 1, ev.n>>, 1, ev.path)

\* points.chunks(2), the complete pairs only, joined with ' ' (lib.rs 2410-2420)
RECURSIVE PairWords(_)
PairWords(points) ==
    IF Len(points) < 2 THEN <<>>
    ELSE <<FormatF64(points[1]), FormatF64(points[2])>> \o PairWords(SubSeq(points, 3, Len(points)))

\* a patch that writes the value into the name and the number at once
patch_pin_name_and_number(pin, key, value) ==
    [pin EXCEPT !.pin_name = value, !.pin_num = value]

\* the field of the pin an ATTR event names takes the value (lib.rs 2376-2381)
patch_pin(pin, key, value) ==
    CASE key = "Pin Name" -> [pin EXCEPT !.pin_name = value]
      [] key = "Pin Number" -> [pin EXCEPT !.pin_num = value]
      [] key = "Pin Type" -> [pin EXCEPT !.pin_type = value]
      [] OTHER -> pin

\* parse_elibu_content, the SYMBOL arm of the loop body (lib.rs 2353-2430)
SymbolEvent(ev, a) ==
    CASE ev.type = "PIN" ->
           IF ev.id = "" THEN a
           ELSE [a EXCEPT !.pins = InsertSorted(a.pins,
                     [id |-> ev.id, x |-> PayloadNum(ev), y |-> 0, rotation |-> 0,
                      pin_num |-> "", pin_name |-> "", pin_type |-> ""], PinIdOrder)]
      [] ev.type = "ATTR" ->
           LET parent_id == PayloadStr(ev, ev.parentId)
               key == PayloadStr(ev, ev.key)
               value == PayloadStr(ev, FormatF64(ev.n))
           IN  IF parent_id = "" \/ PinIndex(a.pins, parent_id) = {} THEN a
               ELSE LET i == CHOOSE i \in PinIndex(a.pins, parent_id) : TRUE IN
                    [a EXCEPT !.pins[i] = patch_pin(@, key, value)]
      [] ev.type = "RECT" ->
           [a EXCEPT !.lines = Append(@,
               <<<<"R">>, <<FormatF64(PayloadNum(ev))>>, <<"0">>, <<"0">>, <<"0">>,
                 <<"0">>, <<"0">>>>)]
      [] ev.type = "ELLIPSE" ->
           [a EXCEPT !.lines = Append(@,
               <<<<"E">>, <<FormatF64(PayloadNum(ev))>>, <<"0">>, <<"0">>>>)]
      [] ev.type = "POLY" ->
           LET points == PathNumbers(ev) IN
           IF Len(points) >= 4
           THEN [a EXCEPT !.lines = Append(@, <<<<"PL">>, PairWords(points)>>)]
           ELSE a
      [] OTHER -> a

\* parse_elibu_content, the FOOTPRINT arm of the loop body (lib.rs 2432-2507)
FootprintEvent(ev, a) ==
    CASE ev.type = "PAD" ->
           LET drill == IF ev.payload = "ok" /\ ev.hole THEN 1 ELSE 0
               layer == IF drill > 0 THEN "11" ELSE "1"
           IN  [a EXCEPT !.lines = Append(@,
                   <<<<"PAD">>, <<"OVAL">>, <<FormatF64(PayloadNum(ev))>>, <<"0">>, <<"1">>,
                     <<"1">>, <<layer>>, <<"0">>, <<"1">>, <<FormatF64(drill)>>, <<"0">>,
                     <<"0">>>>)]
      [] ev.type \in {"POLY", "FILL"} ->
           LET points == PathNumbers(ev) IN
           IF Len(points) >= 4
           THEN [a EXCEPT !.lines = Append(@,
                    <<<<"TRACK">>, <<"0.2">>, <<"3">>, <<"0">>, PairWords(points)>>)]
           ELSE a
      [] OTHER -> a

\* parse_elibu_content, one iteration of the loop over the lines
elibu_line(ev, a, sd, fd) ==
    LET same == [acc |-> a, symbol_data |-> sd, footprint_data |-> fd] IN
    IF ~ev.sep \/ ~ev.headerOk \/ ev.payload = "bad" THEN same
    ELSE IF ev.type = "DOCHEAD"
         THEN LET f == flush_elibu_doc(a, sd, fd) IN
              [f EXCEPT !.acc = [@ EXCEPT !.doc_type = PayloadStr(ev, ev.docType),
                                          !.uuid = PayloadStr(ev, ev.uuid)]]
    ELSE IF EqIgnoreAsciiCase(a.doc_type, "SYMBOL")
         THEN [same EXCEPT !.acc = SymbolEvent(ev, a)]
    ELSE IF EqIgnoreAsciiCase(a.doc_type, "FOOTPRINT")
         THEN [same EXCEPT !.acc = FootprintEvent(ev, a)]
    ELSE same

EmptyMap == [k \in {} |-> <<>>]

ElibuIdle ==
    /\ ePc = "idle"
    /\ log = <<>>
    /\ acc = ElibuDocAccumulatorDefault
    /\ symbol_data = EmptyMap
    /\ footprint_data = EmptyMap

(***************************************************************************)
(* Inputs of the replay                                                    *)
(***************************************************************************)
Event(type, id, payload) ==
    [sep |-> TRUE, headerOk |-> TRUE, type |-> type, id |-> id, payload |-> payload,
     docType |-> "", uuid |-> "", parentId |-> "", key |-> "", path |-> 0,
     hole |-> FALSE, n |-> 0]

DocHead(docType, uuid, payload) ==
    [Event("DOCHEAD", "", payload) EXCEPT !.docType = docType, !.uuid = uuid]

EventSet ==
    {DocHead("SYMBOL", "S1", "ok"),
     DocHead("FOOTPRINT", "F1", "ok"),
     DocHead("symbol", "", "ok"),
     \* a DOCHEAD whose payload text is not JSON
     DocHead("FOOTPRINT", "F2", "bad"),
     Event("PIN", "p1", "ok"),
     Event("PIN", "p2", "ok"),
     [Event("ATTR", "a1", "ok") EXCEPT !.parentId = "p1", !.key = "Pin Name"],
     [Event("ATTR", "a2", "ok") EXCEPT !.parentId = "p2", !.key = "Pin Number"],
     [Event("ATTR", "a3", "ok") EXCEPT !.parentId = "p1", !.key = "Pin Type"],
     [Event("POLY", "l1", "ok") EXCEPT !.path = 4],
     [Event("PAD", "d1", "ok") EXCEPT !.hole = TRUE],
     \* a line without the separator
     [Event("", "", "none") EXCEPT !.sep = FALSE]}

EndMark == Event("EOF", "", "none")

LinesOf(l) == SelectSeq(l, LAMBDA e : e.type # "EOF")
MembersOf(l) == SelectSeq(l, LAMBDA e : e.type = "EOF")

(***************************************************************************)
(* The replay as actions                                                   *)
(***************************************************************************)
\* parse_elibu_content consumes the next line of the member it replays
ReplayLine ==
    /\ ePc \in {"idle", "replaying", "replayed"}
    /\ Len(LinesOf(log)) < MaxEvents
    /\ Len(MembersOf(log)) < MaxMembers
    /\ \E e \in EventSet :
        LET ev == [e EXCEPT !.n = Len(log) + 1]
            r == elibu_line(ev, acc, symbol_data, footprint_data)
        IN  /\ log' = Append(log, ev)
            /\ acc' = r.acc
            /\ symbol_data' = r.symbol_data
            /\ footprint_data' = r.footprint_data
    /\ ePc' = "replaying"
    /\ UNCHANGED notElibuVars

\* parse_elibu_content at the end of a member: the final flush (lib.rs 2510)
EndOfInput ==
    /\ ePc = "replaying"
    /\ LET r == flush_elibu_doc(acc, symbol_data, footprint_data) IN
       /\ acc' = r.acc
       /\ symbol_data' = r.symbol_data
       /\ footprint_data' = r.footprint_data
    /\ log' = Append(log, EndMark)
    /\ ePc' = "replayed"
    /\ UNCHANGED notElibuVars

ElibuNext == ReplayLine \/ EndOfInput
(***************************************************************************)
(* Claims about the replay                                                 *)
(***************************************************************************)
\* a line whose header says DOCHEAD
IsDocHeadLine(e) == e.sep /\ e.headerOk /\ e.type = "DOCHEAD"

\* the number a rendered word shows
WordIndex(w) == CHOOSE n \in 0..9 : FormatF64(n) = w

\* the positions in the log of the events a rendered line shows: the event
\* that gave its coordinate and, for a pin, the ATTR events that named it
LineOrigins(line) ==
    CASE line[1] = <<"P">> ->
           {WordIndex(line[5][1])}
           \cup (IF line[4] = <<"0">> THEN {} ELSE {WordIndex(line[4][1])})
           \cup (IF line[15] = <<>> THEN {} ELSE {WordIndex(line[15][1])})
      [] line[1] \in {<<"R">>, <<"E">>} -> {WordIndex(line[2][1])}
      [] line[1] = <<"PL">> -> {WordIndex(line[2][1])}
      [] line[1] = <<"PAD">> -> {WordIndex(line[3][1])}
      [] line[1] = <<"TRACK">> -> {WordIndex(line[5][1])}
      [] OTHER -> {}

\* the payload holds only lines made by events of the document opened at d
BuiltFromDocument(payload, d) ==
    \A k \in 1..Len(payload) : \A i \in LineOrigins(payload[k]) :
        /\ d < i
        /\ i <= Len(log)
        /\ \A j \in (d + 1)..i : ~IsDocHeadLine(log[j]) /\ log[j].type # "EOF"

\* m[U] is built from one document of the given type whose DOCHEAD carries U
IsolatedEntries(m, docType) ==
    \A U \in DOMAIN m :
        \E d \in 1..Len(log) :
            /\ IsDocHeadLine(log[d])
            /\ log[d].payload = "ok"
            /\ log[d].uuid = U
            /\ EqIgnoreAsciiCase(log[d].docType, docType)
            /\ BuiltFromDocument(m[U], d)

\* C3: the payload committed under a document's UUID is built only from the
\* events between that document's DOCHEAD and the next DOCHEAD: no pin or
\* line accumulated in one document appears in the payload of another.
C3_PayloadBuiltFromOwnDocument ==
    /\ IsolatedEntries(symbol_data, "SYMBOL")
    /\ IsolatedEntries(footprint_data, "FOOTPRINT")

\* a line at which the replay flushes: a DOCHEAD it recognises, or the end
\* of the member
IsBoundary(e) == e.type = "EOF" \/ (IsDocHeadLine(e) /\ e.payload # "bad")

\* the step replays a line at which the accumulated document is flushed
FlushStep == Len(log') = Len(log) + 1 /\ IsBoundary(log'[Len(log')])

\* C18: a document whose DOCHEAD carries an empty or missing UUID never
\* changes the bundle: while it is accumulated, and when it is flushed, both
\* bundle maps stay as they are, and the flush discards its lines and pins.
C18_EmptyUuidDocumentDiscarded ==
    [][acc.uuid = "" =>
          /\ symbol_data' = symbol_data
          /\ footprint_data' = footprint_data
          /\ FlushStep => (acc'.lines = <<>> /\ acc'.pins = <<>>)]_vars

\* a SYMBOL document without UUID accumulated a pin or a line, and the next
\* DOCHEAD, carrying a UUID, has been replayed
C18_Witness ==
    \E d \in 1..Len(log) :
        /\ d + 2 <= Len(log)
        /\ IsBoundary(log[d]) /\ log[d].type = "DOCHEAD"
        /\ log[d].uuid = "" /\ EqIgnoreAsciiCase(log[d].docType, "SYMBOL")
        /\ log[d + 1].type \in {"PIN", "POLY"}
        /\ IsBoundary(log[d + 2]) /\ log[d + 2].type = "DOCHEAD" /\ log[d + 2].uuid # ""
        /\ acc.uuid # ""

\* the step replays an ATTR line the loop does not skip
AttrStep ==
    /\ Len(log') = Len(log) + 1
    /\ LET e == log'[Len(log')] IN
       e.sep /\ e.headerOk /\ e.payload # "bad" /\ e.type = "ATTR"

\* q is p with at most the field the key names changed
OnlyNamedField(p, q, key) ==
    q = CASE key = "Pin Name" -> [p EXCEPT !.pin_name = q.pin_name]
          [] key = "Pin Number" -> [p EXCEPT !.pin_num = q.pin_num]
          [] key = "Pin Type" -> [p EXCEPT !.pin_type = q.pin_type]
          [] OTHER -> p

\* C21: in a SYMBOL document an ATTR event whose parentId is the id of an
\* accumulated pin changes only the field it names, of that one pin; an ATTR
\* event matching no pin, or arriving in a FOOTPRINT document, leaves the
\* accumulator as it is.
C21_AttrPatchesOnlyNamedPinField ==
    [][AttrStep =>
          LET e == log'[Len(log')]
              hit == IF EqIgnoreAsciiCase(acc.doc_type, "SYMBOL")
                     THEN PinIndex(acc.pins, PayloadStr(e, e.parentId)) ELSE {}
          IN  /\ symbol_data' = symbol_data
              /\ footprint_data' = footprint_data
              /\ IF hit = {} THEN acc' = acc
                 ELSE \E i \in hit :
                        /\ hit = {i}
                        /\ Len(acc'.pins) = Len(acc.pins)
                        /\ acc' = [acc EXCEPT !.pins[i] = acc'.pins[i]]
                        /\ OnlyNamedField(acc.pins[i], acc'.pins[i], e.key)]_vars

\* two pins are accumulated in a SYMBOL document and an ATTR event has named
\* one of them
C21_Witness ==
    /\ EqIgnoreAsciiCase(acc.doc_type, "SYMBOL")
    /\ Len(acc.pins) = 2
    /\ \E i \in 1..2 : acc.pins[i].pin_name # "" /\ acc.pins[3 - i].pin_name = ""
    /\ log[Len(log)].type = "ATTR"

\* lib.rs parse_symbol_pin: None for fewer than 14 arguments, else the pin
parse_symbol_pin(args, origin_x, origin_y) ==
    IF Len(args) < 14 THEN [some |-> FALSE, out |-> <<>>]
    ELSE LET electrical_type ==
                 CASE args[2] = <<"1">> -> "input" [] args[2] = <<"2">> -> "output"
                   [] args[2] = <<"3">> -> "bidirectional" [] args[2] = <<"4">> -> "power_in"
                   [] OTHER -> "unspecified"
             rotation == (ParseOr(ArgOr(args, 5, <<>>), 0) \div 10 + 180) % 360
         IN  [some |-> TRUE,
              out |-> <<[kind |-> "pin", type |-> electrical_type, number |-> args[3],
                         x |-> mil2mm(ParseOr(args[4], 0) - origin_x),
                         y |-> -mil2mm(ParseOr(args[5], 0) - origin_y),
                         rotation |-> rotation, name |-> ArgOr(args, 13, <<>>)]>>]

\* the pins create_symbols_from_offline writes for a payload (lib.rs
\* 2954-2965): the "P" lines parse_symbol_pin accepts
SymbolPins(payload) ==
    SelectSeq(payload,
              LAMBDA line : /\ Len(SplitParts(line)) > 0
                            /\ SplitParts(line)[1] = <<"P">>
                            /\ parse_symbol_pin(Tail(SplitParts(line)), 0, 0).some)

\* the pin lines flush_elibu_doc put into a payload
PinLinesOf(payload) == SelectSeq(payload, LAMBDA line : line[1] = <<"P">>)

\* C26: every pin accumulated from a PIN event of a SYMBOL document appears
\* as one pin in the generated symbol library, named by an ATTR event or
\* not: each pin line synthesized at flush is accepted by parse_symbol_pin.
C26_EveryFlushedPinIsRendered ==
    \A U \in DOMAIN symbol_data :
        Len(SymbolPins(symbol_data[U])) = Len(PinLinesOf(symbol_data[U]))

\* the line that ends the document opened at d, 0 while it is still open
DocEnd(d) ==
    LET ends == {j \in (d + 1)..Len(log) : IsBoundary(log[j])} IN
    IF ends = {} THEN 0 ELSE CHOOSE j \in ends : \A k \in ends : j <= k

\* the accumulator after the lines i..j of the log
RECURSIVE Accumulate(_, _, _)
Accumulate(a, i, j) ==
    IF i > j THEN a
    ELSE Accumulate(elibu_line(log[i], a, EmptyMap, EmptyMap).acc, i + 1, j)

\* the payload accumulated for the document opened at d
DocPayload(d) ==
    LET a == Accumulate([ElibuDocAccumulatorDefault EXCEPT !.doc_type = log[d].docType,
                                                           !.uuid = log[d].uuid],
                        d + 1, DocEnd(d) - 1)
    IN  IF EqIgnoreAsciiCase(log[d].docType, "SYMBOL")
        THEN a.lines \o [i \in 1..Len(a.pins) |-> PinLine(a.pins[i])]
        ELSE a.lines

\* the ended documents of a type that carry a UUID and a non-empty payload
EndedDocuments(docType) ==
    {d \in 1..Len(log) :
        /\ IsBoundary(log[d]) /\ log[d].type = "DOCHEAD"
        /\ log[d].uuid # ""
        /\ EqIgnoreAsciiCase(log[d].docType, docType)
        /\ DocEnd(d) # 0
        /\ DocPayload(d) # <<>>}

\* every ended document that is the last of its UUID has its payload in m
CommittedLast(m, docType) ==
    \A d \in EndedDocuments(docType) :
        (\A e \in EndedDocuments(docType) : log[e].uuid = log[d].uuid => e <= d) =>
            /\ log[d].uuid \in DOMAIN m
            /\ m[log[d].uuid] = DocPayload(d)

\* C19: every SYMBOL or FOOTPRINT document with a non-empty UUID is committed
\* when the next DOCHEAD begins or the input ends: the bundle entry under its
\* UUID is the payload accumulated for it, also when an earlier document or
\* an earlier member used the same UUID.
C19_EntryIsDocumentPayload ==
    /\ CommittedLast(symbol_data, "SYMBOL")
    /\ CommittedLast(footprint_data, "FOOTPRINT")

(***************************************************************************)
(* The offline bundle and its lookups                                      *)
(***************************************************************************)
\* Option<T>: None is <<>>, Some(v) is <<v>>
MapGet(m, k) == IF k \in DOMAIN m THEN <<m[k]>> ELSE <<>>

UuidF1 == <<"F", "1">>
UuidF1Rev == <<"F", "1", "|", "r">>
UuidF2 == <<"F", "2">>
UuidS1 == <<"S", "1">>
UuidS1Rev == <<"S", "1", "|", "r">>

\* the UUIDs of the model in the order a BTreeMap iterates them
UuidOrder == <<UuidF1, UuidF1Rev, UuidF2, UuidS1, UuidS1Rev>>

\* map.iter().find_map(|(k, v)| if uuid_first_part(k) == short { Some(v) } ...)
RECURSIVE FindByFirstPart(_, _, _)
FindByFirstPart(m, short, order) ==
    IF Len(order) = 0 THEN <<>>
    ELSE IF Head(order) \in DOMAIN m /\ uuid_first_part(Head(order)) = short
         THEN <<m[Head(order)]>>
    ELSE FindByFirstPart(m, short, Tail(order))

\* the three steps shared by get_symbol_data_by_uuid and
\* get_footprint_title_by_uuid: exact key, first part, scan by first part
LookupWithFallback(m, uuid) ==
    IF uuid \in DOMAIN m THEN <<m[uuid]>>
    ELSE IF uuid_first_part(uuid) \in DOMAIN m THEN <<m[uuid_first_part(uuid)]>>
    ELSE FindByFirstPart(m, uuid_first_part(uuid), UuidOrder)

\* lib.rs get_symbol_data_by_uuid
get_symbol_data_by_uuid(b, symbol_uuid) == LookupWithFallback(b.symbol_data, symbol_uuid)

\* lib.rs get_footprint_title_by_uuid
get_footprint_title_by_uuid(b, footprint_uuid) ==
    LookupWithFallback(b.footprint_titles, footprint_uuid)

\* bundle.footprint_data.get(fp_uuid) in convert_local_folder (lib.rs 3092)
FootprintPayloadLookup(b, fp_uuid) == MapGet(b.footprint_data, fp_uuid)

\* bundle.symbol_titles.get(symbol_uuid) in create_symbols_from_offline
SymbolTitleLookup(b, symbol_uuid) == MapGet(b.symbol_titles, symbol_uuid)

\* the record loop of create_footprint_from_offline run to its end
RECURSIVE RenderAll(_, _)
RenderAll(lines, st) ==
    IF Len(lines) = 0 \/ st.panic THEN st
    ELSE LET r == RenderRecord(Head(lines), st.info) IN
         RenderAll(Tail(lines),
                   [panic |-> r.panic, out |-> st.out \o r.out, info |-> r.info])

\* lib.rs create_footprint_from_offline as one call: "ok", "err" or "panic"
create_footprint_from_offline(ds, step, localModel, copyOk, writeOk) ==
    LET parsed == parse_local_data_str(ds) IN
    IF parsed = None THEN "err"
    ELSE LET st == RenderAll(parsed, [panic |-> FALSE, out |-> <<>>,
                                      info |-> FootprintInfoDefault])
         IN  IF st.panic THEN "panic"
             ELSE IF (step /\ localModel /\ ~copyOk) \/ ~writeOk THEN "err"
             ELSE "ok"

\* lib.rs create_symbols_from_offline, the symbols it puts into the library:
\* one per symbol UUID of each device whose payload is found and parses
RECURSIVE SymbolsOf(_, _, _, _)
SymbolsOf(dev, b, idx, uuids) ==
    IF Len(uuids) = 0 THEN <<>>
    ELSE LET ds == get_symbol_data_by_uuid(b, Head(uuids))
             title == SymbolTitleLookup(b, Head(uuids))
             rest == SymbolsOf(dev, b, idx + 1, Tail(uuids))
         IN  IF ds = <<>> \/ parse_local_data_str(ds[1]) = None THEN rest
             ELSE <<[id |-> dev.id, idx |-> idx,
                     title |-> IF title = <<>> THEN dev.name ELSE title[1]]>> \o rest

RECURSIVE SymbolLibrary(_, _)
SymbolLibrary(devices, b) ==
    IF Len(devices) = 0 THEN <<>>
    ELSE SymbolsOf(Head(devices), b, 0, Head(devices).symbol_uuids)
         \o SymbolLibrary(Tail(devices), b)

(***************************************************************************)
(* Network settings and the HTTP client                                    *)
(***************************************************************************)
\* NetworkSettings::default()
NetworkSettingsDefault ==
    [easyeda_use_proxy |-> TRUE, lcsc_use_proxy |-> FALSE, proxy_address |-> "p1"]

\* str::trim on a proxy address: " p1 " is "p1" padded, " " is only padding
TrimAddr(addr) == CASE addr = " p1 " -> "p1" [] addr = " " -> "" [] OTHER -> addr

\* reqwest::Proxy::all(addr).is_ok(), for the addresses of the model: "p1"
\* and "p2" are proxy URLs, "bad" is not, and neither is the empty string
ProxyUrlOk(addr) == addr \in {"p1", "p2"}

\* JlcClient::build_client(proxy): the route of the client built, or "error"
build_client(proxy) ==
    IF proxy = <<>> \/ TrimAddr(proxy[1]) = "" THEN "direct"
    ELSE IF ProxyUrlOk(TrimAddr(proxy[1])) THEN TrimAddr(proxy[1])
    ELSE "error"

\* build_client(proxy).unwrap_or_else(|_| build_client(None) ...)
BuildOrDirect(proxy) == IF build_client(proxy) = "error" THEN "direct" ELSE build_client(proxy)

\* JlcClient::new reading the settings s: the route of each of its clients
JlcClientNew(s) ==
    [lcsc_client |-> BuildOrDirect(IF s.lcsc_use_proxy THEN <<s.proxy_address>> ELSE <<>>),
     easyeda_primary_client |->
         BuildOrDirect(IF s.easyeda_use_proxy THEN <<s.proxy_address>> ELSE <<>>),
     easyeda_fallback_client |->
         BuildOrDirect(IF s.easyeda_use_proxy THEN <<>> ELSE <<s.proxy_address>>)]

NoClient == [lcsc_client |-> "none", easyeda_primary_client |-> "none",
             easyeda_fallback_client |-> "none"]

\* set_network_settings validating for the EasyEDA traffic class only
set_network_settings_easyeda_only(store, s) ==
    LET proxy_addr == TrimAddr(s.proxy_address) IN
    IF s.easyeda_use_proxy /\ proxy_addr # "" /\ ~ProxyUrlOk(proxy_addr)
    THEN [result |-> "err", store |-> store]
    ELSE [result |-> "ok", store |-> s]

\* lib.rs set_network_settings: the result of the call and the value the
\* store holds after it
set_network_settings(store, s) ==
    LET proxy_addr == TrimAddr(s.proxy_address) IN
    IF \/ s.easyeda_use_proxy /\ proxy_addr # "" /\ ~ProxyUrlOk(proxy_addr)
       \/ s.lcsc_use_proxy /\ proxy_addr # "" /\ ~ProxyUrlOk(proxy_addr)
    THEN [result |-> "err", store |-> store]
    ELSE [result |-> "ok", store |-> s]

(***************************************************************************)
(* create_component and download_step_only_online                          *)
(*                                                                         *)
(* What the network and the disk answer is a record net of booleans:       *)
(* lookup (get_component_data gave results), hasSymbols (more than one      *)
(* result), fetch (get_footprint_data succeeded), renders (the footprint    *)
(* renderer did not panic), resolve (the model UUID lookup gave a UUID),    *)
(* model (a candidate download succeeded), symbol (create_symbol_internal   *)
(* succeeded).                                                              *)
(***************************************************************************)
NetSet ==
    [lookup : BOOLEAN, hasSymbols : BOOLEAN, fetch : BOOLEAN, renders : BOOLEAN,
     resolve : BOOLEAN, model : BOOLEAN, symbol : BOOLEAN]

\* lib.rs create_component after JlcClient::new: the result, whether the
\* footprint file was written, the model status and whether symbols were
\* written
create_component(o, net) ==
    LET err(text) == [result |-> "err", text |-> text, footprint |-> FALSE,
                      model |-> "none", symbols |-> FALSE]
        onlyModel == o.step /\ ~o.create_footprint /\ ~o.create_symbol
    IN  IF ~net.lookup THEN err("No results found")
        ELSE IF onlyModel /\ ~net.fetch THEN err("footprint data")
        ELSE IF onlyModel /\ ~net.model THEN err("3D download failed")
        ELSE IF o.create_footprint /\ ~net.fetch THEN err("footprint data")
        ELSE IF o.create_footprint /\ ~net.renders
             THEN [result |-> "panic", text |-> "", footprint |-> FALSE, model |-> "none",
                   symbols |-> FALSE]
        ELSE IF ~o.create_footprint /\ o.create_symbol /\ ~net.fetch THEN err("footprint data")
        ELSE LET downloaded == o.step /\ net.model /\ (o.create_footprint \/ onlyModel)
                 status == IF downloaded THEN "downloaded"
                           ELSE IF o.step THEN "failed" ELSE "skipped"
             IN  IF o.create_symbol /\ net.hasSymbols /\ ~net.symbol
                 THEN [result |-> "err", text |-> "symbol", footprint |-> o.create_footprint,
                       model |-> status, symbols |-> FALSE]
                 ELSE [result |-> "ok", text |-> "", footprint |-> o.create_footprint,
                       model |-> status,
                       symbols |-> o.create_symbol /\ net.hasSymbols]

\* the "Footprint:" and "Symbol:" fields of create_component's success
\* message (lib.rs 1277-1284)
success_message(o) ==
    [footprint |-> IF o.create_footprint THEN "created" ELSE "skipped",
     symbol |-> IF o.create_symbol THEN "created" ELSE "skipped"]

\* lib.rs download_step_only_online after JlcClient::new
download_step_only_online(net) ==
    IF ~net.resolve THEN "err" ELSE IF ~net.model THEN "err" ELSE "ok"

(***************************************************************************)
(* Inputs of the conversions                                               *)
(***************************************************************************)
SettingsSet ==
    {NetworkSettingsDefault,
     [easyeda_use_proxy |-> TRUE, lcsc_use_proxy |-> FALSE, proxy_address |-> "p2"],
     [easyeda_use_proxy |-> FALSE, lcsc_use_proxy |-> FALSE, proxy_address |-> "bad"],
     [easyeda_use_proxy |-> TRUE, lcsc_use_proxy |-> TRUE, proxy_address |-> "bad"]}

OptsSet == [create_footprint : BOOLEAN, create_symbol : BOOLEAN, step : BOOLEAN]

\* the function holding the given <<key, value>> pairs
MapOf(pairs) == [k \in {p[1] : p \in pairs} |-> (CHOOSE p \in pairs : p[1] = k)[2]]

Dev(id, fp, syms) == [id |-> id, name |-> id, footprint_uuid |-> fp, symbol_uuids |-> syms]

TwoPads ==
    [json |-> FALSE,
     lines |-> <<PadLine("OVAL", "0", "0", "1", "1", "0", "0"),
                 PadLine("RECT", "100", "-300", "11", "2", "5", "90")>>]

\* a TRACK whose point list holds five coordinates
OddTrack ==
    [json |-> TRUE,
     lines |-> <<<<<<"TRACK">>, <<"2">>, <<"3">>, <<"0">>, <<"0", "0", "100", "200", "300">>>>>>]

\* JSON with an empty shape array
NoShape == [json |-> TRUE, lines |-> <<>>]

OneRect == [json |-> FALSE, lines |-> <<<<<<"R">>, <<"0">>, <<"0">>, <<"0">>, <<"0">>, <<"10">>, <<"10">>>>>>]

Bundle(devices, fd, ft, sd, st) ==
    [present |-> TRUE, devices |-> MapOf(devices), footprint_data |-> MapOf(fd),
     footprint_titles |-> MapOf(ft), symbol_data |-> MapOf(sd), symbol_titles |-> MapOf(st)]

NoBundle == [Bundle({}, {}, {}, {}, {}) EXCEPT !.present = FALSE]

TwoDevices == {<<"C1", Dev("C1", <<UuidF1>>, <<UuidS1>>)>>, <<"C2", Dev("C2", <<UuidF2>>, <<>>)>>}

BundleSet ==
    {NoBundle,
     \* geometry keyed by the UUIDs the manifest names
     Bundle(TwoDevices, {<<UuidF1, TwoPads>>, <<UuidF2, TwoPads>>}, {<<UuidF1, "T1">>},
            {<<UuidS1, OneRect>>}, {<<UuidS1, "ST">>}),
     \* one footprint payload the renderer cannot survive
     Bundle(TwoDevices, {<<UuidF1, OddTrack>>, <<UuidF2, TwoPads>>}, {<<UuidF1, "T1">>},
            {<<UuidS1, OneRect>>}, {<<UuidS1, "ST">>}),
     \* geometry and titles keyed by "uuid|revision"
     Bundle(TwoDevices, {<<UuidF1Rev, TwoPads>>, <<UuidF2, TwoPads>>}, {<<UuidF1Rev, "T1">>},
            {<<UuidS1Rev, OneRect>>}, {<<UuidS1Rev, "ST">>}),
     \* a payload that does not parse, a device without footprint UUID
     Bundle({<<"C1", Dev("C1", <<UuidF1>>, <<UuidS1>>)>>, <<"C2", Dev("C2", <<>>, <<>>)>>},
            {<<UuidF1, NoShape>>}, {}, {<<UuidS1, NoShape>>}, {}),
     \* the manifest alone
     Bundle(TwoDevices, {}, {}, {}, {}),
     \* footprint geometry without any symbol geometry
     Bundle(TwoDevices, {<<UuidF1, TwoPads>>}, {<<UuidF1, "T1">>}, {}, {})}

IdSets == {{"C1"}, {"C1", "C2"}, {"C2", "C9"}}

BatchIdle ==
    /\ settings = NetworkSettingsDefault
    /\ bPc = "idle"
    /\ mode = "none"
    /\ opts = [create_footprint |-> FALSE, create_symbol |-> FALSE, step |-> FALSE]
    /\ bundle = NoBundle
    /\ component_ids = {}
    /\ todo = {}
    /\ current = ""
    /\ client = NoClient
    /\ startSettings = NetworkSettingsDefault
    /\ requests = {}
    /\ success = 0
    /\ failed = <<>>
    /\ written = {}
    /\ modelFailed = {}
    /\ selected_devices = <<>>
    /\ symbol_file = <<>>

(***************************************************************************)
(* The conversions as actions                                              *)
(***************************************************************************)
\* the set_network_settings command, which may run beside a conversion
SetNetworkSettings ==
    /\ \E s \in SettingsSet : settings' = set_network_settings(settings, s).store
    /\ UNCHANGED <<bPc, mode, opts, bundle, component_ids, todo, current, client,
                   startSettings, requests, success, failed, written, modelFailed,
                   selected_devices, symbol_file>>
    /\ UNCHANGED notBatchVars

\* a fresh conversion: counters, ghost sets and files of the previous one gone
FreshRun ==
    /\ requests' = {}
    /\ success' = 0
    /\ failed' = <<>>
    /\ written' = {}
    /\ modelFailed' = {}
    /\ selected_devices' = <<>>
    /\ symbol_file' = <<>>

\* the create_component command called for one identifier: JlcClient::new
StartSingle ==
    /\ bPc = "idle"
    /\ \E id \in {"C1"}, o \in OptsSet :
        /\ opts' = o
        /\ component_ids' = {id}
        /\ current' = id
    /\ mode' = "single"
    /\ bundle' = NoBundle
    /\ todo' = {}
    /\ client' = JlcClientNew(settings)
    /\ startSettings' = settings
    /\ bPc' = "component"
    /\ FreshRun
    /\ UNCHANGED settings
    /\ UNCHANGED notBatchVars

\* a footprint is requested and the bundle has no footprint geometry
need_offline_data_footprint_only(b, o) ==
    o.create_footprint /\ DOMAIN b.footprint_data = {}

\* the bundle lacks the geometry of a requested kind (lib.rs 3026-3029)
need_offline_data(b, o) ==
    \/ o.create_footprint /\ DOMAIN b.footprint_data = {}
    \/ o.create_symbol /\ DOMAIN b.symbol_data = {}

\* convert_local_folder up to its loop: the bundle is loaded, the path taken
\* is chosen (lib.rs 3025-3034, 3072-3076, 3195-3198), the identifiers are
\* collected; a load or collection error returns Err
StartBatch ==
    /\ bPc = "idle"
    /\ \E b \in BundleSet, found \in IdSets, o \in OptsSet, loadOk \in BOOLEAN :
        /\ opts' = o
        /\ bundle' = IF loadOk THEN b ELSE NoBundle
        /\ component_ids' = IF loadOk THEN found ELSE {}
        /\ todo' = IF loadOk THEN found ELSE {}
        /\ bPc' = IF loadOk THEN "loop" ELSE "err"
        /\ mode' = IF ~loadOk THEN "none"
                   ELSE IF b.present /\ ~need_offline_data(b, o) THEN "offline"
                   ELSE "online"
    /\ current' = ""
    /\ client' = NoClient
    /\ startSettings' = settings
    /\ FreshRun
    /\ UNCHANGED settings
    /\ UNCHANGED notBatchVars

\* the online loops of convert_local_folder reach create_component for the
\* next identifier, which builds its JlcClient (lib.rs 1128)
BeginComponent ==
    /\ bPc = "loop"
    /\ mode = "online"
    /\ \E id \in todo :
        /\ current' = id
        /\ todo' = todo \ {id}
    /\ client' = JlcClientNew(settings)
    /\ bPc' = "component"
    /\ UNCHANGED <<settings, mode, opts, bundle, component_ids, startSettings, requests,
                   success, failed, written, modelFailed, selected_devices, symbol_file>>
    /\ UNCHANGED notBatchVars

\* create_component runs to its end with the client it built, and the caller
\* (the command, or the loop of convert_local_folder) takes its result
EndComponent ==
    /\ bPc = "component"
    /\ \E r \in {create_component(opts, net) : net \in NetSet} :
        /\ requests' = requests \cup {client}
        /\ written' = IF r.footprint THEN written \cup {current} ELSE written
        /\ modelFailed' = IF r.footprint /\ r.model = "failed"
                          THEN modelFailed \cup {current} ELSE modelFailed
        /\ symbol_file' = IF r.symbols
                          THEN <<[id |-> current, idx |-> 0, title |-> "online"]>>
                          ELSE symbol_file
        /\ success' = IF r.result = "ok" THEN success + 1 ELSE success
        /\ failed' = IF r.result = "err"
                     THEN Append(failed, [id |-> current, text |-> r.text]) ELSE failed
        /\ bPc' = IF r.result = "panic" THEN "panicked"
                  ELSE IF mode = "single" THEN (IF r.result = "ok" THEN "done" ELSE "err")
                  ELSE "loop"
    /\ client' = NoClient
    /\ UNCHANGED <<settings, mode, opts, bundle, component_ids, todo, current,
                   startSettings, selected_devices>>
    /\ UNCHANGED notBatchVars

\* convert_local_folder, one iteration of the offline loop (lib.rs 3078-3155)
\* up to the point where download_step_only_online has built its JlcClient
OfflineComponent ==
    /\ bPc = "loop"
    /\ mode = "offline"
    /\ \E id \in todo, localModel \in BOOLEAN, copyOk \in BOOLEAN, writeOk \in BOOLEAN :
        LET dev == MapGet(bundle.devices, id)
            fp == IF dev = <<>> THEN <<>> ELSE dev[1].footprint_uuid
            ds == IF fp = <<>> THEN <<>> ELSE FootprintPayloadLookup(bundle, fp[1])
            r == IF ds = <<>> THEN "none"
                 ELSE create_footprint_from_offline(ds[1], opts.step, localModel, copyOk,
                                                    writeOk)
            stepOnly == ~opts.create_footprint /\ opts.step /\ ~opts.create_symbol
            fail == IF dev = <<>> THEN <<"no device metadata">>
                    ELSE IF ~opts.create_footprint THEN <<>>
                    ELSE IF fp = <<>> THEN <<"no footprint UUID">>
                    ELSE IF ds = <<>> THEN <<"no footprint data">>
                    ELSE IF r = "err" THEN <<"footprint not written">>
                    ELSE <<>>
            panics == dev # <<>> /\ opts.create_footprint /\ r = "panic"
            wrote == dev # <<>> /\ opts.create_footprint /\ r = "ok"
            online == (wrote /\ opts.step) \/ (dev # <<>> /\ stepOnly)
        IN  /\ current' = id
            /\ todo' = todo \ {id}
            /\ selected_devices' = IF dev = <<>> THEN selected_devices
                                   ELSE Append(selected_devices, dev[1])
            /\ failed' = IF fail = <<>> THEN failed
                         ELSE Append(failed, [id |-> id, text |-> fail[1]])
            /\ written' = IF wrote THEN written \cup {id} ELSE written
            /\ success' = IF fail = <<>> /\ ~panics /\ ~online THEN success + 1 ELSE success
            /\ client' = IF online THEN JlcClientNew(settings) ELSE NoClient
            /\ bPc' = IF panics THEN "panicked"
                      ELSE IF online THEN "step_online" ELSE "loop"
    /\ UNCHANGED <<settings, mode, opts, bundle, component_ids, startSettings, requests,
                   modelFailed, symbol_file>>
    /\ UNCHANGED notBatchVars

\* download_step_only_online runs to its end and the offline loop takes its
\* result (lib.rs 3111-3125 and 3140-3151)
StepOnlyOnline ==
    /\ bPc = "step_online"
    /\ \E r \in {download_step_only_online(net) : net \in NetSet} :
        /\ success' = IF r = "ok" THEN success + 1 ELSE success
        /\ failed' = IF r = "ok" THEN failed
                     ELSE Append(failed,
                              [id |-> current,
                               text |-> IF opts.create_footprint
                                        THEN "footprint exported, 3D download failed"
                                        ELSE "3D download failed"])
        /\ modelFailed' = IF r = "err" /\ current \in written
                          THEN modelFailed \cup {current} ELSE modelFailed
    /\ requests' = requests \cup {client}
    /\ client' = NoClient
    /\ bPc' = "loop"
    /\ UNCHANGED <<settings, mode, opts, bundle, component_ids, todo, current,
                   startSettings, written, selected_devices, symbol_file>>
    /\ UNCHANGED notBatchVars

\* convert_local_folder after its loop: the offline path exports the symbols
\* (lib.rs 3157-3169), every path returns Ok with the summary
FinishBatch ==
    /\ bPc = "loop"
    /\ todo = {}
    /\ \E diskOk \in BOOLEAN :
        LET exporting == mode = "offline" /\ opts.create_symbol
            lib == SymbolLibrary(selected_devices, bundle)
        IN  /\ symbol_file' = IF exporting /\ diskOk THEN lib ELSE symbol_file
            /\ failed' = IF exporting /\ ~diskOk
                         THEN Append(failed, [id |-> "", text |-> "symbol export failed"])
                         ELSE IF exporting /\ Len(lib) = 0
                         THEN Append(failed, [id |-> "", text |-> "no usable symbol data"])
                         ELSE failed
    /\ bPc' = "done"
    /\ UNCHANGED <<settings, mode, opts, bundle, component_ids, todo, current, client,
                   startSettings, requests, success, written, modelFailed,
                   selected_devices>>
    /\ UNCHANGED notBatchVars

BatchNext ==
    \/ SetNetworkSettings
    \/ StartSingle
    \/ StartBatch
    \/ BeginComponent
    \/ EndComponent
    \/ OfflineComponent
    \/ StepOnlyOnline
    \/ FinishBatch

(***************************************************************************)
(* Claims about the conversions                                            *)
(***************************************************************************)
\* the identifiers named by a failure entry
FailedIds == {failed[i].id : i \in 1..Len(failed)}

\* the conversion has stopped: a summary, an Err, or a panic
Stopped == bPc \in {"done", "err", "panicked"}

\* C1: a batch over discovered identifiers attempts every one of them and
\* ends with an Ok summary, whatever fails on single identifiers: no
\* identifier is left unreached, and every identifier that is not counted as
\* a success has a failure entry naming it, with an error text.
C1_BatchAttemptsEveryIdentifier ==
    (mode \in {"online", "offline"} /\ component_ids # {} /\ Stopped) =>
        /\ bPc = "done"
        /\ todo = {}
        /\ Cardinality(component_ids \ FailedIds) <= success
        /\ \A i \in 1..Len(failed) : failed[i].text # ""

\* the failure texts that report a 3D model that could not be obtained
ModelFailureTexts == {"footprint exported, 3D download failed", "3D download failed"}

\* C2: an identifier whose footprint file was written is never turned into a
\* failure by its 3D model: no failure entry that reports a model failure
\* names an identifier whose footprint was written, online or offline.
C2_ModelFailureKeepsFootprint ==
    \A i \in 1..Len(failed) :
        failed[i].id \in written => failed[i].text \notin ModelFailureTexts

\* the map holds an entry under the UUID, under its first part, or under a
\* key with the same first part
HeldUnder(m, uuid) == \E k \in DOMAIN m : uuid_first_part(k) = uuid_first_part(uuid)

DeviceFootprintUuids(b) ==
    {b.devices[d].footprint_uuid[1] : d \in {x \in DOMAIN b.devices :
                                               b.devices[x].footprint_uuid # <<>>}}

DeviceSymbolUuids(b) ==
    UNION {Range(b.devices[d].symbol_uuids) : d \in DOMAIN b.devices}

\* C4: every lookup by a footprint or symbol UUID, for payloads and titles
\* alike, finds the entry the bundle holds under the UUID, its first part or
\* a key with the same first part; an offline conversion never reports a
\* footprint payload as missing that the bundle holds under such a key.
C4_LookupsFallBack ==
    /\ \A u \in DeviceFootprintUuids(bundle) :
        /\ HeldUnder(bundle.footprint_data, u) => FootprintPayloadLookup(bundle, u) # <<>>
        /\ HeldUnder(bundle.footprint_titles, u) =>
               get_footprint_title_by_uuid(bundle, u) # <<>>
    /\ \A u \in DeviceSymbolUuids(bundle) :
        /\ HeldUnder(bundle.symbol_data, u) => get_symbol_data_by_uuid(bundle, u) # <<>>
        /\ HeldUnder(bundle.symbol_titles, u) => SymbolTitleLookup(bundle, u) # <<>>
    /\ \A i \in 1..Len(failed) :
        (mode = "offline" /\ failed[i].text = "no footprint data") =>
            ~HeldUnder(bundle.footprint_data,
                       bundle.devices[failed[i].id].footprint_uuid[1])

\* the bundle holds geometry for every output kind the options request
HasRequestedGeometry ==
    /\ opts.create_footprint => DOMAIN bundle.footprint_data # {}
    /\ opts.create_symbol => DOMAIN bundle.symbol_data # {}

\* the symbols written so far come from the online service
SymbolsFromOnline ==
    \A i \in 1..Len(symbol_file) : symbol_file[i].title = "online"

\* C17: a batch takes its geometry from the offline bundle exactly when a
\* bundle is present and holds geometry for every requested kind; without a
\* bundle, or with a bundle lacking a requested kind, every discovered
\* identifier goes through the online conversion and none through the
\* offline one.
C17_OfflineIffBundleHasGeometry ==
    mode \in {"online", "offline"} =>
        /\ mode = "offline" <=> (bundle.present /\ HasRequestedGeometry)
        /\ mode = "offline" => bPc # "component"
        /\ mode = "online" =>
              /\ bPc # "step_online"
              /\ SymbolsFromOnline
              /\ selected_devices = <<>>
              /\ bPc = "done" => success + Len(failed) = Cardinality(component_ids)

\* a batch over a bundle with footprint geometry and no symbol geometry, with
\* symbols requested, ended after converting an identifier online
C17_Witness ==
    /\ bPc = "done"
    /\ mode = "online"
    /\ bundle.present
    /\ DOMAIN bundle.footprint_data # {}
    /\ opts.create_symbol
    /\ success > 0

\* the identifiers whose symbols the symbol library file holds
SymbolIdsIn(f) == {f[i].id : i \in 1..Len(f)}

\* C25: during a batch with symbol creation requested, the symbol library
\* file keeps the symbols written for every identifier converted so far:
\* converting a later identifier never removes those of an earlier one.
C25_BatchKeepsEarlierSymbols ==
    [][(mode \in {"online", "offline"} /\ bPc # "idle") =>
          SymbolIdsIn(symbol_file) \subseteq SymbolIdsIn(symbol_file')]_vars

\* C28: when create_component returns a success message reporting an
\* output as created, the file of that output was written during the call:
\* "Symbol: created" is never reported for a component whose lookup gave no
\* symbol UUID.
C28_CreatedMeansWritten ==
    (mode = "single" /\ bPc = "done") =>
        /\ success_message(opts).footprint = "created" => current \in written
        /\ success_message(opts).symbol = "created" => current \in SymbolIdsIn(symbol_file)

\* the failure entries of the summary that name an identifier
NamedFailures == {i \in 1..Len(failed) : failed[i].id # ""}

\* every output the options request exists for the identifier
OutputsProduced(id) ==
    /\ opts.create_footprint => id \in written
    /\ opts.create_symbol => id \in SymbolIdsIn(symbol_file)
    /\ opts.step => id \notin modelFailed

\* C30: in every summary of convert_local_folder each discovered identifier
\* is counted exactly once, as a success or as a failure: the success count
\* plus the number of failure entries equals the number of discovered
\* identifiers, and an identifier is counted as a success only if every
\* output requested for it was produced.
C30_SummaryCountsEachIdentifierOnce ==
    (mode \in {"online", "offline"} /\ bPc = "done") =>
        /\ success + Len(failed) = Cardinality(component_ids)
        /\ \A id \in component_ids \ FailedIds : OutputsProduced(id)

\* C30, the part that holds: the success count plus the number of failure
\* entries naming an identifier equals the number of discovered identifiers
C30_NamedEntriesCountEachIdentifierOnce ==
    (mode \in {"online", "offline"} /\ bPc = "done") =>
        success + Cardinality(NamedFailures) = Cardinality(component_ids)

\* C10: every request of a conversion, single or batch, goes through a client
\* built from the settings that were in the store when the conversion
\* started, whatever set_network_settings stored in the meantime.
C10_SettingsSnapshotAtStart ==
    \A c \in requests : c = JlcClientNew(startSettings)

(***************************************************************************)
(* The settings commands and the HTTP operations of JlcClient              *)
(*                                                                         *)
(* What the network answers to one request is an outcome: "ok" (a success  *)
(* status and a body that reads), "status" (a non-success status),         *)
(* "transport" (send failed), "body" (a success status, then a failure     *)
(* while the body is read), and for a POST "notjson" (the body reads but   *)
(* does not decode as JSON).                                               *)
(***************************************************************************)
EASYEDA_BASE_URLS == <<"https://lceda.cn", "https://easyeda.com">>
PRO_EASYEDA_BASE_URLS == <<"https://pro.lceda.cn", "https://pro.easyeda.com">>
MODEL_BASE_URLS == <<"https://modules.lceda.cn", "https://modules.easyeda.com">>

GetOutcomes == {"ok", "status", "transport", "body"}
PostOutcomes == GetOutcomes \cup {"notjson"}

Request(base, cl, outcome) == [base |-> base, client |-> cl, outcome |-> outcome]

\* the JlcError a failed request becomes
RequestError(base, cl, outcome) ==
    [kind |-> IF outcome = "notjson" THEN "JsonError" ELSE "RequestError",
     base |-> base, client |-> cl, outcome |-> outcome]

\* last_err.unwrap_or_else(|| JlcError::ApiError(..))
ApiError == [kind |-> "ApiError", base |-> "", client |-> "", outcome |-> ""]

\* a loop that keeps the first error it met
KeepFirstErr(prev, e) == IF prev = <<>> THEN <<e>> ELSE prev

\* the loop's assignment last_err = Some(e)
SetLastErr(prev, e) == <<e>>

\* easyeda_get_text_url and easyeda_get_bytes_url for one URL: the primary
\* client's request, the fallback client's request if that one failed to
\* send or gave a non-success status; p and f are the network's answers
easyeda_get_url(base, p, f) ==
    IF p \in {"ok", "body"}
    THEN [ok |-> p = "ok", sent |-> <<Request(base, "primary", p)>>,
          err |-> RequestError(base, "primary", p)]
    ELSE [ok |-> f = "ok",
          sent |-> <<Request(base, "primary", p), Request(base, "fallback", f)>>,
          err |-> RequestError(base, "fallback", f)]

\* easyeda_post_form_json, one iteration of the loop over the bases: what is
\* sent, and whether the function returns Ok ("return"), returns the error
\* through `?` ("propagate"), or goes on to the next base ("next")
post_form_json_base(base, p, f) ==
    LET firstFailed == p \in {"status", "transport"}
        sent == IF firstFailed
                THEN <<Request(base, "primary", p), Request(base, "fallback", f)>>
                ELSE <<Request(base, "primary", p)>>
        cl == IF firstFailed THEN "fallback" ELSE "primary"
        answer == IF firstFailed THEN f ELSE p
    IN  [sent |-> sent,
         err |-> RequestError(base, cl, answer),
         step |-> CASE answer = "ok" -> "return"
                    [] answer = "body" -> "propagate"
                    [] OTHER -> "next"]

NetIdle ==
    /\ nPc = "idle"
    /\ setArg = NetworkSettingsDefault
    /\ setResult = "none"
    /\ storeBefore = NetworkSettingsDefault
    /\ gotSettings = <<>>
    /\ hOp = "none"
    /\ hBases = <<>>
    /\ hIdx = 0
    /\ hTrace = <<>>
    /\ last_err = <<>>
    /\ hResult = <<>>
    /\ hSettings = NetworkSettingsDefault
    /\ hClient = NoClient

\* the settings a caller may hand to set_network_settings
NetSettingsSet ==
    [easyeda_use_proxy : BOOLEAN, lcsc_use_proxy : BOOLEAN,
     proxy_address : {"p1", " p1 ", "bad", "", " "}]

GetOps == {"easyeda_get_text_path", "easyeda_get_text_pro_path", "easyeda_get_bytes_with_bases"}

\* the bases each operation walks (lib.rs 630, 642, 697, 1045)
BasesOf(op) ==
    CASE op = "easyeda_get_text_path" -> EASYEDA_BASE_URLS
      [] op = "easyeda_get_bytes_with_bases" -> MODEL_BASE_URLS
      [] OTHER -> PRO_EASYEDA_BASE_URLS

httpVars == <<nPc, hOp, hBases, hIdx, hTrace, last_err, hResult, hSettings, hClient>>

\* the values the settings store can hold: the default, and every value
\* set_network_settings accepts
StoredSettingsSet ==
    {NetworkSettingsDefault}
        \cup {s \in NetSettingsSet : set_network_settings(NetworkSettingsDefault, s).result = "ok"}

\* the set_network_settings command
SetNetworkSettingsCmd ==
    /\ \E s \in NetSettingsSet :
        /\ setArg' = s
        /\ setResult' = set_network_settings(settings, s).result
        /\ settings' = set_network_settings(settings, s).store
    /\ storeBefore' = settings
    /\ gotSettings' = <<>>
    /\ UNCHANGED httpVars
    /\ UNCHANGED notNetVars

\* the get_network_settings command: a clone of the stored value
GetNetworkSettingsCmd ==
    /\ gotSettings' = <<settings>>
    /\ UNCHANGED <<settings, setArg, setResult, storeBefore>>
    /\ UNCHANGED httpVars
    /\ UNCHANGED notNetVars

\* a GET-by-path or POST operation is called on a JlcClient built from the
\* stored settings (JlcClient::new at the head of each command)
StartHttp ==
    /\ nPc \in {"idle", "done"}
    /\ \E s \in StoredSettingsSet :
        /\ hSettings' = s
        /\ hClient' = JlcClientNew(s)
    /\ \E op \in GetOps \cup {"easyeda_post_form_json"} :
        /\ hOp' = op
        /\ hBases' = BasesOf(op)
    /\ nPc' = "loop"
    /\ hIdx' = 1
    /\ hTrace' = <<>>
    /\ last_err' = <<>>
    /\ hResult' = <<>>
    /\ UNCHANGED <<settings, setArg, setResult, storeBefore, gotSettings>>
    /\ UNCHANGED notNetVars

\* one iteration of the loop of a GET-by-path operation
GetTryBase ==
    /\ nPc = "loop"
    /\ hOp \in GetOps
    /\ hIdx <= Len(hBases)
    /\ \E p \in GetOutcomes, f \in GetOutcomes :
        LET r == easyeda_get_url(hBases[hIdx], p, f) IN
        /\ hTrace' = hTrace \o r.sent
        /\ IF r.ok
           THEN /\ hResult' = <<[ok |-> TRUE, base |-> hBases[hIdx]]>>
                /\ nPc' = "done"
                /\ UNCHANGED last_err
           ELSE /\ last_err' = SetLastErr(last_err, r.err)
                /\ UNCHANGED <<hResult, nPc>>
    /\ hIdx' = hIdx + 1
    /\ UNCHANGED <<hOp, hBases, hSettings, hClient>>
    /\ UNCHANGED <<settings, setArg, setResult, storeBefore, gotSettings>>
    /\ UNCHANGED notNetVars

\* one iteration of the loop of easyeda_post_form_json
PostTryBase ==
    /\ nPc = "loop"
    /\ hOp = "easyeda_post_form_json"
    /\ hIdx <= Len(hBases)
    /\ \E p \in PostOutcomes, f \in PostOutcomes :
        LET r == post_form_json_base(hBases[hIdx], p, f) IN
        /\ hTrace' = hTrace \o r.sent
        /\ CASE r.step = "return" ->
                  /\ hResult' = <<[ok |-> TRUE, base |-> hBases[hIdx]]>>
                  /\ nPc' = "done"
                  /\ UNCHANGED last_err
             [] r.step = "propagate" ->
                  /\ hResult' = <<[ok |-> FALSE, err |-> r.err]>>
                  /\ nPc' = "done"
                  /\ UNCHANGED last_err
             [] OTHER ->
                  /\ last_err' = SetLastErr(last_err, r.err)
                  /\ UNCHANGED <<hResult, nPc>>
    /\ hIdx' = hIdx + 1
    /\ UNCHANGED <<hOp, hBases, hSettings, hClient>>
    /\ UNCHANGED <<settings, setArg, setResult, storeBefore, gotSettings>>
    /\ UNCHANGED notNetVars

\* the bases are exhausted: Err(last_err.unwrap_or_else(ApiError))
HttpExhausted ==
    /\ nPc = "loop"
    /\ hIdx > Len(hBases)
    /\ hResult' = <<[ok |-> FALSE, err |-> IF last_err = <<>> THEN ApiError ELSE last_err[1]]>>
    /\ nPc' = "done"
    /\ UNCHANGED <<hOp, hBases, hIdx, hTrace, last_err, hSettings, hClient>>
    /\ UNCHANGED <<settings, setArg, setResult, storeBefore, gotSettings>>
    /\ UNCHANGED notNetVars

SettingsNext ==
    \/ SetNetworkSettingsCmd
    \/ GetNetworkSettingsCmd

HttpNext ==
    \/ StartHttp
    \/ GetTryBase
    \/ PostTryBase
    \/ HttpExhausted

(***************************************************************************)
(* Claims about the settings commands                                      *)
(***************************************************************************)
\* some traffic class of the last call's argument enables the proxy
ProxyEnabled == setArg.easyeda_use_proxy \/ setArg.lcsc_use_proxy

\* what the last set_network_settings did, given whether its argument had
\* to be refused: refused, it returned an error and the store (and what
\* get_network_settings returns since) is the value stored before; accepted,
\* the store is the argument, whole
SetOutcomeIs(refused) ==
    LET expected == IF refused THEN storeBefore ELSE setArg IN
    /\ setResult = (IF refused THEN "err" ELSE "ok")
    /\ settings = expected
    /\ gotSettings # <<>> => gotSettings[1] = expected

\* C11: a set_network_settings call whose proxy address is not a valid proxy
\* URL while a traffic class enables the proxy returns an error and leaves
\* the stored settings unchanged; every other call replaces the stored value.
C11_InvalidProxyRejected ==
    setResult # "none" =>
        SetOutcomeIs(ProxyEnabled /\ ~ProxyUrlOk(TrimAddr(setArg.proxy_address)))

\* C11, amended: the call is refused when a traffic class enables the proxy
\* and the trimmed address is non-empty and not a valid proxy URL; every
\* other call, an empty address with the proxy enabled included, replaces
\* the stored value whole.
C11_NonEmptyInvalidProxyRejected ==
    setResult # "none" =>
        SetOutcomeIs(/\ ProxyEnabled
                     /\ TrimAddr(setArg.proxy_address) # ""
                     /\ ~ProxyUrlOk(TrimAddr(setArg.proxy_address)))

\* C11 witness: a refused call after an accepted one that changed the store,
\* followed by a get_network_settings that returns the value stored before
C11_Witness ==
    /\ setResult = "err"
    /\ setArg.lcsc_use_proxy /\ ~setArg.easyeda_use_proxy
    /\ storeBefore # NetworkSettingsDefault
    /\ gotSettings = <<storeBefore>>

(***************************************************************************)
(* Claims about the HTTP operations                                        *)
(***************************************************************************)
\* the positions in the trace of the requests sent to a base
RequestsTo(b) == {i \in 1..Len(hTrace) : hTrace[i].base = b}

\* the last request sent to a base that was requested
LastTo(b) == hTrace[CHOOSE i \in RequestsTo(b) : \A j \in RequestsTo(b) : j <= i]

\* the base was requested and every client tried on it failed
HostFailed(b) == RequestsTo(b) # {} /\ LastTo(b).outcome # "ok"

\* C12: a GET-by-path operation walks the two hostnames of its API family in
\* their fixed order, requests the second only after the first failed, fails
\* only if both failed, and then returns the second hostname's error.
C12_GetTriesHostsInOrder ==
    hOp \in GetOps =>
        /\ Len(hBases) = 2
        /\ \A i \in 1..Len(hTrace) : hTrace[i].base \in {hBases[1], hBases[2]}
        /\ \A i \in RequestsTo(hBases[1]), j \in RequestsTo(hBases[2]) : i < j
        /\ RequestsTo(hBases[2]) # {} => HostFailed(hBases[1])
        /\ hResult # <<>> =>
            IF hResult[1].ok
            THEN /\ RequestsTo(hResult[1].base) # {}
                 /\ LastTo(hResult[1].base).outcome = "ok"
            ELSE /\ HostFailed(hBases[1])
                 /\ HostFailed(hBases[2])
                 /\ hResult[1].err.base = hBases[2]
                 /\ hResult[1].err.outcome = LastTo(hBases[2]).outcome
                 /\ hResult[1].err.client = LastTo(hBases[2]).client

\* C12 witness: a GET-by-path operation that failed on both hostnames, the
\* first with a non-success status and the second with a transport error
C12_Witness ==
    /\ hOp \in GetOps
    /\ hResult # <<>>
    /\ ~hResult[1].ok
    /\ HostFailed(hBases[1]) /\ LastTo(hBases[1]).outcome = "status"
    /\ HostFailed(hBases[2]) /\ LastTo(hBases[2]).outcome = "transport"

\* C13: easyeda_post_form_json returns an error only after both hostnames
\* have been tried and both failed, whatever the failure on the first was.
C13_PostErrOnlyAfterBothHosts ==
    (hOp = "easyeda_post_form_json" /\ hResult # <<>> /\ ~hResult[1].ok) =>
        /\ HostFailed(hBases[1])
        /\ HostFailed(hBases[2])

\* the route of the client that sent a request of the trace
RouteOf(req) ==
    IF req.client = "primary" THEN hClient.easyeda_primary_client
    ELSE hClient.easyeda_fallback_client

\* the route is a proxy address
ViaProxy(route) == route \notin {"direct", "none"}

\* the requests of the trace sent by one of the two EasyEDA clients
SentBy(cl) == {i \in 1..Len(hTrace) : hTrace[i].client = cl}

\* C29: when the use-proxy flag of a traffic class is off in the settings a
\* JlcClient was built from, no request of that class goes through the
\* proxy address, neither from the primary client nor from the fallback
\* client used after a primary failure.
C29_FlagOffNeverUsesProxy ==
    /\ ~hSettings.easyeda_use_proxy =>
           \A i \in 1..Len(hTrace) : ~ViaProxy(RouteOf(hTrace[i]))
    /\ ~hSettings.lcsc_use_proxy => ~ViaProxy(hClient.lcsc_client)

\* C29, the part that holds: with the EasyEDA flag off the primary client's
\* requests are direct, and with the LCSC flag off the LCSC client is direct
C29_PrimaryRespectsFlag ==
    /\ ~hSettings.easyeda_use_proxy =>
           \A i \in SentBy("primary") : ~ViaProxy(RouteOf(hTrace[i]))
    /\ ~hSettings.lcsc_use_proxy => ~ViaProxy(hClient.lcsc_client)

(***************************************************************************)
(* The 3D-model download chain of create_footprint_internal and of the     *)
(* 3D-only branch of create_component                                      *)
(***************************************************************************)
Candidate(uuid, stage) == [uuid |-> uuid, stage |-> stage]

\* Vec::dedup: of each run of consecutive equal UUIDs the first is kept
RECURSIVE dedup(_)
dedup(v) ==
    IF Len(v) <= 1 THEN v
    ELSE IF v[1].uuid = v[2].uuid THEN dedup(<<v[1]>> \o SubSeq(v, 3, Len(v)))
    ELSE <<v[1]>> \o dedup(Tail(v))

\* the candidate list with the footprint's own UUID tried first
candidates_own_first(resolved, svg, footprint_uuid) ==
    dedup(<<Candidate(footprint_uuid, 3)>>
          \o (IF resolved = <<>> THEN <<>> ELSE <<Candidate(resolved[1], 1)>>)
          \o (IF svg = <<>> THEN <<>> ELSE <<Candidate(svg[1], 2)>>))

\* the candidate list as assembled (lib.rs 3353-3361, 1169-1177): the UUID
\* resolve_step_uuid_via_pro_api gave, the SVG node's, the footprint's own
assemble_candidates(resolved, svg, footprint_uuid) ==
    dedup((IF resolved = <<>> THEN <<>> ELSE <<Candidate(resolved[1], 1)>>)
          \o (IF svg = <<>> THEN <<>> ELSE <<Candidate(svg[1], 2)>>)
          \o <<Candidate(footprint_uuid, 3)>>)

\* "3D 模型下载失败（模型UUID: {}）: {}": the candidate's UUID and the error
\* of its download; n tells apart the attempts of one chain
ModelErrorText(uuid, cause, n) == [uuid |-> uuid, cause |-> cause, n |-> n]

ModelIdle ==
    /\ mPc = "idle"
    /\ mPath = "none"
    /\ model_candidates = <<>>
    /\ mIdx = 0
    /\ downloads = <<>>
    /\ step_model_downloaded = FALSE
    /\ step_model_error = <<>>
    /\ mReport = <<>>

\* the model UUIDs the lookups may give, and the footprint's own UUID
ModelUuids == {"M1", "M2", "FP"}
OptionOf(S) == {<<>>} \cup {<<x>> : x \in S}

\* the errors a download may end with
DownloadCauses == {"empty response", "request failed"}

\* the candidate list is assembled and deduplicated
AssembleCandidates ==
    /\ mPc \in {"idle", "reported"}
    /\ \E resolved \in OptionOf(ModelUuids), svg \in OptionOf(ModelUuids) :
        model_candidates' = assemble_candidates(resolved, svg, "FP")
    /\ \E path \in {"footprint", "only"} : mPath' = path
    /\ mPc' = "chain"
    /\ mIdx' = 1
    /\ downloads' = <<>>
    /\ step_model_downloaded' = FALSE
    /\ step_model_error' = <<>>
    /\ mReport' = <<>>
    /\ UNCHANGED notModelVars

\* download_step_only_online (lib.rs 1294-1308): the lookup through the
\* code-search API gives the one UUID that is downloaded; its error, or its
\* finding no UUID, is the error returned
StepOnlyLookup ==
    /\ mPc \in {"idle", "reported"}
    /\ \E resolved \in [ok : BOOLEAN, uuid : OptionOf(ModelUuids)] :
        LET found == resolved.ok /\ resolved.uuid # <<>> IN
        /\ model_candidates' = IF found THEN <<Candidate(resolved.uuid[1], 1)>> ELSE <<>>
        /\ mPc' = IF found THEN "chain" ELSE "chained"
        /\ step_model_error' =
              IF found THEN <<>>
              ELSE <<ModelErrorText("", IF resolved.ok THEN "no model UUID"
                                        ELSE "request failed", 0)>>
    /\ mPath' = "offline"
    /\ mIdx' = 1
    /\ downloads' = <<>>
    /\ step_model_downloaded' = FALSE
    /\ mReport' = <<>>
    /\ UNCHANGED notModelVars

\* one iteration of the loop over the candidates: download_step_model
TryCandidate ==
    /\ mPc = "chain"
    /\ mIdx <= Len(model_candidates)
    /\ LET c == model_candidates[mIdx] IN
       \/ /\ downloads' = Append(downloads, [uuid |-> c.uuid, stage |-> c.stage, ok |-> TRUE])
          /\ step_model_downloaded' = TRUE
          /\ mPc' = "chained"
          /\ UNCHANGED step_model_error
       \/ /\ downloads' = Append(downloads, [uuid |-> c.uuid, stage |-> c.stage, ok |-> FALSE])
          /\ \E cause \in DownloadCauses :
                step_model_error' = <<ModelErrorText(c.uuid, cause, mIdx)>>
          /\ UNCHANGED <<step_model_downloaded, mPc>>
    /\ mIdx' = mIdx + 1
    /\ UNCHANGED <<mPath, model_candidates, mReport>>
    /\ UNCHANGED notModelVars

\* every candidate failed: the loop ends
ChainExhausted ==
    /\ mPc = "chain"
    /\ mIdx > Len(model_candidates)
    /\ mPc' = "chained"
    /\ UNCHANGED <<mPath, model_candidates, mIdx, downloads, step_model_downloaded,
                   step_model_error, mReport>>
    /\ UNCHANGED notModelVars

\* create_component after the chain (lib.rs 1205-1215, 1262-1284): Err with
\* the recorded error in 3D-only mode, otherwise Ok with the model status
\* and, when it is "failed", the recorded error; download_step_only_online
\* returns Err when nothing was downloaded
ReportModel ==
    /\ mPc = "chained"
    /\ mReport' =
         IF step_model_downloaded
         THEN <<[result |-> "Ok", model_status |-> "downloaded", error |-> <<>>]>>
         ELSE <<[result |-> IF mPath \in {"only", "offline"} THEN "Err" ELSE "Ok",
                 model_status |-> "failed", error |-> step_model_error]>>
    /\ mPc' = "reported"
    /\ UNCHANGED <<mPath, model_candidates, mIdx, downloads, step_model_downloaded,
                   step_model_error>>
    /\ UNCHANGED notModelVars

ModelNext ==
    \/ AssembleCandidates
    \/ StepOnlyLookup
    \/ TryCandidate
    \/ ChainExhausted
    \/ ReportModel

(***************************************************************************)
(* Claims about the download chain                                         *)
(***************************************************************************)
\* C14: the candidates are downloaded one at a time in discovery order
\* (device lookup, SVG node, the footprint's own UUID); the first success
\* ends the chain; when every candidate failed, the failure reported carries
\* the error text of the last candidate tried.
C14_ChainInOrderStopsAtSuccess ==
    /\ \A i, j \in 1..Len(downloads) : i < j => downloads[i].stage < downloads[j].stage
    /\ \A i \in 1..Len(downloads) : downloads[i].ok => i = Len(downloads)
    /\ step_model_downloaded <=> \E i \in 1..Len(downloads) : downloads[i].ok
    /\ (mPc = "reported" /\ mPath # "offline") =>
        IF step_model_downloaded
        THEN mReport[1].model_status = "downloaded"
        ELSE /\ Len(downloads) = Len(model_candidates)
             /\ mReport[1].model_status = "failed"
             /\ mReport[1].error # <<>>
             /\ mReport[1].error[1].n = Len(downloads)
             /\ mReport[1].error[1].uuid = downloads[Len(downloads)].uuid

\* C14 witness: three candidates from three stages, all failed and reported
C14_Witness ==
    /\ mPc = "reported"
    /\ Len(downloads) = 3
    /\ ~step_model_downloaded
    /\ mReport[1].error[1].uuid = "FP"

\* C24: every stage of the model resolution is best-effort: in every path
\* that fetches a model online, a conversion that ends without a model has
\* tried the later candidates, down to the footprint's own UUID, also when
\* the device lookup failed or gave no UUID.
C24_LaterCandidatesStillTried ==
    (mPc \in {"chained", "reported"} /\ ~step_model_downloaded) =>
        \E i \in 1..Len(downloads) : downloads[i].uuid = "FP"

\* C15: the candidate list holds no model UUID twice, so no model UUID is
\* requested for download more than once in one conversion.
C15_NoModelUuidTwice ==
    /\ \A i, j \in 1..Len(model_candidates) :
          model_candidates[i].uuid = model_candidates[j].uuid => i = j
    /\ \A i, j \in 1..Len(downloads) : downloads[i].uuid = downloads[j].uuid => i = j

(***************************************************************************)
(* search_easyeda and JlcClient::search_easyeda_pro                        *)
(*                                                                         *)
(* What a search request yields is a record: err ("" when the request and  *)
(* the JSON decoding succeeded, else "RequestError" or "JsonError"),       *)
(* success (the response's success flag) and items (the ids of the items   *)
(* listed, "" for an item without one).                                    *)
(***************************************************************************)
\* the loop over the items (lib.rs 802-881, 917-990): items without an id
\* and ids already seen are skipped
RECURSIVE CollectResults(_, _)
CollectResults(results, items) ==
    IF Len(items) = 0 THEN results
    ELSE IF Head(items) = "" \/ \E i \in 1..Len(results) : results[i] = Head(items)
         THEN CollectResults(results, Tail(items))
         ELSE CollectResults(Append(results, Head(items)), Tail(items))

SearchOk(results) == <<[ok |-> TRUE, results |-> results, err |-> ""]>>
SearchErr(err) == <<[ok |-> FALSE, results |-> <<>>, err |-> err]>>

\* one attempted strategy: the answer its request received and what it yielded
Tried(strategy, answer, yielded) ==
    [strategy |-> strategy, answer |-> answer, yielded |-> yielded]

\* search_easyeda's arms for an Err of search_easyeda_pro (lib.rs 1373-1387):
\* where the search goes next and what it returns if it stops
after_pro_error(err, query) ==
    IF err = "RequestError"
    THEN IF query = "code"
         THEN [pc |-> "alternate", result |-> <<>>]
         ELSE [pc |-> "done", result |-> SearchErr("cannot connect")]
    ELSE [pc |-> "done", result |-> SearchErr(err)]

\* search_easyeda's arms for an Ok of search_easyeda_pro (lib.rs 1361-1372)
after_pro_ok(results, query) ==
    IF Len(results) # 0 THEN [pc |-> "done", result |-> SearchOk(results)]
    ELSE IF query = "code" THEN [pc |-> "alternate", result |-> <<>>]
    ELSE [pc |-> "done", result |-> SearchErr("not found")]

\* JlcClient::search_components: nothing when the response reports no
\* success or lists no component, else one result whose id is the query
search_components(a) ==
    IF a.err # "" \/ ~a.success \/ Len(a.items) = 0 THEN <<>> ELSE <<"query">>

SearchIdle ==
    /\ sPc = "idle"
    /\ sQuery = "empty"
    /\ sTried = <<>>
    /\ sAfter = ""
    /\ sResult = <<>>

ItemLists == {<<>>, <<"">>, <<"C1">>, <<"C1", "C1">>, <<"C1", "C2">>, <<"", "C2">>}

SearchAnswers ==
    [err : {"", "RequestError", "JsonError"}, success : BOOLEAN, items : ItemLists]

AlternateAnswers ==
    [err : {"", "RequestError", "ApiError"}, success : BOOLEAN, items : {<<>>, <<"F1">>}]

\* search_easyeda is called: an empty query is refused, a query starting
\* with C begins with the code-based search, any other with the keyword one
StartSearch ==
    /\ sPc \in {"idle", "done"}
    /\ \E q \in {"code", "keyword", "empty"} :
        /\ sQuery' = q
        /\ sPc' = CASE q = "empty" -> "done" [] q = "code" -> "codes" [] OTHER -> "keyword"
        /\ sResult' = IF q = "empty" THEN SearchErr("empty query") ELSE <<>>
    /\ sTried' = <<>>
    /\ sAfter' = ""
    /\ UNCHANGED notSearchVars

\* search_easyeda_pro, the searchByCodes request and its items (lib.rs 788-888)
SearchByCodes ==
    /\ sPc = "codes"
    /\ \E a \in SearchAnswers :
        LET results == IF a.success THEN CollectResults(<<>>, a.items) ELSE <<>>
            next == IF a.err # "" THEN after_pro_error(a.err, sQuery)
                    ELSE IF Len(results) # 0 THEN after_pro_ok(results, sQuery)
                    ELSE [pc |-> "keyword", result |-> <<>>]
        IN  /\ sTried' = Append(sTried, Tried("codes", a,
                   IF a.err # "" THEN "failed"
                   ELSE IF Len(results) # 0 THEN "results" ELSE "empty"))
            /\ sPc' = next.pc
            /\ sResult' = next.result
            /\ sAfter' = IF a.err # "" THEN "connect" ELSE sAfter
    /\ UNCHANGED sQuery
    /\ UNCHANGED notSearchVars

\* search_easyeda_pro, the keyword search request and its items (lib.rs
\* 892-993): a response without the success flag is an ApiError
SearchKeyword ==
    /\ sPc = "keyword"
    /\ \E a \in SearchAnswers :
        LET results == CollectResults(<<>>, a.items)
            next == IF a.err # "" THEN after_pro_error(a.err, sQuery)
                    ELSE IF ~a.success THEN after_pro_error("ApiError", sQuery)
                    ELSE after_pro_ok(results, sQuery)
        IN  /\ sTried' = Append(sTried, Tried("keyword", a,
                   IF a.err # "" \/ ~a.success THEN "failed"
                   ELSE IF Len(results) # 0 THEN "results" ELSE "empty"))
            /\ sPc' = next.pc
            /\ sResult' = next.result
            /\ sAfter' = IF a.err # "" THEN "connect" ELSE "empty"
    /\ UNCHANGED sQuery
    /\ UNCHANGED notSearchVars

\* the alternate search of a vendor-code query: client.search_components
SearchAlternate ==
    /\ sPc = "alternate"
    /\ \E a \in AlternateAnswers :
        LET results == search_components(a)
            yielded == IF a.err # "" THEN "failed"
                       ELSE IF Len(results) # 0 THEN "results" ELSE "empty"
        IN
        /\ sTried' = Append(sTried, Tried("alternate", a, yielded))
        /\ sResult' = IF yielded = "results" THEN SearchOk(results)
                      ELSE IF sAfter = "connect" THEN SearchErr("cannot connect")
                      ELSE SearchErr("not found")
    /\ sPc' = "done"
    /\ UNCHANGED <<sQuery, sAfter>>
    /\ UNCHANGED notSearchVars

SearchNext ==
    \/ StartSearch
    \/ SearchByCodes
    \/ SearchKeyword
    \/ SearchAlternate

(***************************************************************************)
(* Claims about the search                                                 *)
(***************************************************************************)
\* the strategies of a query, in order: the code-based search and the
\* alternate search are those of a vendor-code query
StrategiesOf(query) ==
    CASE query = "code" -> <<"codes", "keyword", "alternate">>
      [] query = "keyword" -> <<"keyword">>
      [] OTHER -> <<>>

\* C16: search_easyeda attempts its strategies in order, moves on to the
\* next one whenever the previous one yielded no results, by an empty result
\* set or by a failure, and returns the first non-empty result set.
C16_StrategiesInOrderUntilResults ==
    /\ Len(sTried) <= Len(StrategiesOf(sQuery))
    /\ \A i \in 1..Len(sTried) :
          /\ sTried[i].strategy = StrategiesOf(sQuery)[i]
          /\ sTried[i].yielded = "results" => i = Len(sTried)
    /\ (sResult # <<>> /\ sQuery # "empty") =>
          IF sResult[1].ok
          THEN sTried[Len(sTried)].yielded = "results"
          ELSE /\ Len(sTried) = Len(StrategiesOf(sQuery))
               /\ \A i \in 1..Len(sTried) : sTried[i].yielded # "results"

(***************************************************************************)
(* load_offline_bundle_from_elibz: legacy blobs, then the event log        *)
(***************************************************************************)
\* the most members an archive holds
MaxArchive == 3

\* extract_data_str_from_component_blob: None for blank content, the dataStr
\* of a JSON blob that has one, else the trimmed content itself
extract_data_str_from_component_blob(text) ==
    CASE text \in {"", " "} -> <<>>
      [] text = "{dataStr:ds}" -> <<<<<<<<"ds">>>>>>>>
      [] text = " raw " -> <<<<<<<<"raw">>>>>>>>
      [] OTHER -> <<<<<<<<text>>>>>>>>

\* HashMap::insert: a later value under the same key replaces the earlier one
MapInsert(m, k, v) == [x \in DOMAIN m \cup {k} |-> IF x = k THEN v ELSE m[x]]

\* parse_elibu_content over the lines of one member: the loop, then the flush
RECURSIVE replay_lines(_, _, _, _)
replay_lines(lines, a, sd, fd) ==
    IF Len(lines) = 0 THEN flush_elibu_doc(a, sd, fd)
    ELSE LET r == elibu_line(Head(lines), a, sd, fd) IN
         replay_lines(Tail(lines), r.acc, r.symbol_data, r.footprint_data)

parse_elibu_content(lines, sd, fd) ==
    replay_lines(lines, ElibuDocAccumulatorDefault, sd, fd)

\* the condition under which the event-log members are replayed (lib.rs 2633)
replays_event_log(fd, sd) == DOMAIN fd = {} \/ DOMAIN sd = {}

ArchiveIdle ==
    /\ zPc = "idle"
    /\ archive = <<>>
    /\ zIdx = 0
    /\ zFootprint = EmptyMap
    /\ zSymbol = EmptyMap
    /\ replayed = <<>>

\* the members an archive may hold: name suffix, file stem, content
Member(ext, stem, text, lines) ==
    [ext |-> ext, stem |-> stem, content |-> text, lines |-> lines]

MemberSet ==
    {Member("efoo", "F1", "{dataStr:ds}", <<>>),
     Member("efoo", "", " raw ", <<>>),
     Member("esym", "S1", " raw ", <<>>),
     Member("esym", "S1", " ", <<>>),
     Member("elibu", "a", "",
            <<DocHead("FOOTPRINT", "F1", "ok"), [Event("PAD", "d1", "ok") EXCEPT !.n = 1]>>),
     Member("elibu", "b", "",
            <<DocHead("SYMBOL", "S1", "ok"), [Event("PIN", "p1", "ok") EXCEPT !.n = 2],
              DocHead("FOOTPRINT", "F2", "ok"), [Event("PAD", "d1", "ok") EXCEPT !.n = 3]>>),
     Member("json", "device", "", <<>>)}

ArchiveSet ==
    UNION {[1..n -> MemberSet] : n \in 1..MaxArchive}

\* load_offline_bundle_from_elibz opens an archive and reads its manifest;
\* without device.json and device2.json it returns the empty bundle
OpenArchive ==
    /\ zPc = "idle"
    /\ \E ar \in ArchiveSet, manifest \in BOOLEAN :
        /\ archive' = ar
        /\ zPc' = IF manifest THEN "blobs" ELSE "done"
    /\ zIdx' = 1
    /\ zFootprint' = EmptyMap
    /\ zSymbol' = EmptyMap
    /\ replayed' = <<>>
    /\ UNCHANGED notArchiveVars

\* one iteration of the loop over the legacy blobs (lib.rs 2601-2631)
LoadBlob ==
    /\ zPc = "blobs"
    /\ zIdx <= Len(archive)
    /\ \E readOk \in BOOLEAN :
        LET m == archive[zIdx]
            normalized == extract_data_str_from_component_blob(m.content)
            loads == m.stem # "" /\ normalized # <<>>
        IN  /\ zPc' = IF readOk THEN "blobs" ELSE "err"
            /\ zFootprint' = IF readOk /\ m.ext = "efoo" /\ loads
                             THEN MapInsert(zFootprint, m.stem, normalized[1])
                             ELSE zFootprint
            /\ zSymbol' = IF readOk /\ m.ext = "esym" /\ loads
                          THEN MapInsert(zSymbol, m.stem, normalized[1])
                          ELSE zSymbol
    /\ zIdx' = zIdx + 1
    /\ UNCHANGED <<archive, replayed>>
    /\ UNCHANGED notArchiveVars

\* after the blobs: the event log is replayed or the bundle is returned
AfterBlobs ==
    /\ zPc = "blobs"
    /\ zIdx > Len(archive)
    /\ zPc' = IF replays_event_log(zFootprint, zSymbol) THEN "replay" ELSE "done"
    /\ zIdx' = 1
    /\ UNCHANGED <<archive, zFootprint, zSymbol, replayed>>
    /\ UNCHANGED notArchiveVars

\* one iteration of the loop over the event-log members (lib.rs 2634-2644)
ReplayMember ==
    /\ zPc = "replay"
    /\ zIdx <= Len(archive)
    /\ \E readOk \in BOOLEAN :
        LET m == archive[zIdx]
            r == parse_elibu_content(m.lines, zSymbol, zFootprint)
            replays == readOk /\ m.ext = "elibu"
        IN  /\ zPc' = IF readOk THEN "replay" ELSE "err"
            /\ zFootprint' = IF replays THEN r.footprint_data ELSE zFootprint
            /\ zSymbol' = IF replays THEN r.symbol_data ELSE zSymbol
            /\ replayed' = IF replays THEN Append(replayed, zIdx) ELSE replayed
    /\ zIdx' = zIdx + 1
    /\ UNCHANGED archive
    /\ UNCHANGED notArchiveVars

\* the bundle is returned
FinishLoad ==
    /\ zPc = "replay"
    /\ zIdx > Len(archive)
    /\ zPc' = "done"
    /\ UNCHANGED <<archive, zIdx, zFootprint, zSymbol, replayed>>
    /\ UNCHANGED notArchiveVars

ArchiveNext ==
    \/ OpenArchive
    \/ LoadBlob
    \/ AfterBlobs
    \/ ReplayMember
    \/ FinishLoad

(***************************************************************************)
(* Claims about the archive                                                *)
(***************************************************************************)
\* the archive members whose legacy blob was loaded into the bundle
LoadedBlobs ==
    {i \in 1..Len(archive) :
        /\ archive[i].ext \in {"efoo", "esym"}
        /\ archive[i].stem # ""
        /\ extract_data_str_from_component_blob(archive[i].content) # <<>>}

\* the payloads the legacy blobs of the archive hold
BlobPayloads ==
    {extract_data_str_from_component_blob(archive[i].content)[1] : i \in LoadedBlobs}

\* C20: the event-log members of an archive are replayed only when the
\* archive yielded no legacy geometry blob: once a footprint blob or a
\* symbol blob was loaded, no member is replayed and every bundle entry is a
\* blob's payload.
C20_ReplayOnlyWithoutLegacyBlobs ==
    (zPc \in {"replay", "done"} /\ LoadedBlobs # {}) =>
        /\ replayed = <<>>
        /\ \A U \in DOMAIN zFootprint : zFootprint[U] \in BlobPayloads
        /\ \A U \in DOMAIN zSymbol : zSymbol[U] \in BlobPayloads

\* every component at rest: nothing scanned, rendered, replayed or converted yet
Init ==
    /\ IdInit /\ RenderIdle /\ ElibuIdle /\ BatchIdle
    /\ NetIdle /\ ModelIdle /\ SearchIdle /\ ArchiveIdle

SpecIds == Init /\ [][IdNext]_vars

SpecRender == Init /\ [][RenderNext]_vars

SpecElibu == Init /\ [][ElibuNext]_vars

SpecBatch == Init /\ [][BatchNext]_vars

SpecSettings == Init /\ [][SettingsNext]_vars

SpecHttp == Init /\ [][HttpNext]_vars

SpecModels == Init /\ [][ModelNext]_vars

SpecSearch == Init /\ [][SearchNext]_vars

SpecArchive == Init /\ [][ArchiveNext]_vars

====
